---- MODULE Spec2Model ----
(***************************************************************************)
(* Verification model of the recipe-extraction pipeline of recipe-api.     *)
(*                                                                         *)
(*   - the two-provider extraction engine (app/services/llm_client.py)     *)
(*   - the extraction orchestrator (app/services/extractor.py)             *)
(*   - the audio extractor's error classification (app/services/video.py)  *)
(*   - the background job runners and cancel_job (app/routers/extract.py)  *)
(*   - start_extraction_job and the tasks it starts, for one URL           *)
(*     (app/routers/extract.py)                                            *)
(*   - the recipe normalisers and the website extractor                    *)
(*     (app/services/llm_client.py, app/services/website.py)               *)
(*   - the confidence evaluator (app/services/extractor.py) and the URL    *)
(*     normaliser (app/services/video.py)                                  *)
(*                                                                         *)
(* Text contents are abstracted to the tags the code branches on (empty or *)
(* not, which collaborator produced it); control flow, retry counters,     *)
(* database rows and the ORM session cache are modelled as the code has    *)
(* them.                                                                   *)
(***************************************************************************)
EXTENDS Integers, Sequences, FiniteSets, TLC

VARIABLES
    \* ---- extraction engine (LLMService) ----
    lpc,          \* position inside the engine entry point
    lmode,        \* which entry point runs: text | image | images | json | slideshow
    keys,         \* [primary, secondary] : is the provider's API key configured
    behaviour,    \* [primary, secondary] : fail | ok | flaky | any (how the provider answers)
    attempt,      \* loop variable of the retry loop of the current provider
    calls,        \* [primary, secondary] : HTTP calls made in this invocation
    last_error,   \* last_error of the running retry loop
    lresult,      \* value returned by the entry point
    \* ---- RecipeExtractor.extract ----
    ein,          \* arguments of extract: url shape, notes, progress_callback, fast_mode
    ex,           \* local variables of extract, and its position (ex.pc)
    fs,           \* the temporary audio file and its directory: do they exist
    events,       \* the ExtractionProgress events handed to the progress sink, in order
    trace,        \* which collaborators extract has called so far
    result,       \* what extract returned (or that it raised)
    \* ---- job runners and cancel_job ----
    tpc,          \* position of the background task
    cpc,          \* position of the cancel_job request
    cancelAt,     \* position of the task when cancel_job committed ("never" if it has not)
    dbJob,        \* the extraction_jobs row (committed state)
    sessJob,      \* the job as held in the task session's identity map
    dbRecipes,    \* number of recipe rows created by this job that are persisted
    dbRecipe,     \* the existing recipe row of a re-extraction (committed state)
    dbVersions,   \* number of RecipeVersion rows persisted for that recipe
    pending,      \* what the task holds for its next commit: version | thumbnail
    jres,         \* the extraction result the task is working with
    \* ---- WebsiteService.extract ----
    wpc,          \* position inside WebsiteService.extract
    page,         \* what the URL serves: HTML or a fetch error, JSON-LD block, main content
    wres,         \* the WebsiteExtractionResult returned
    \* ---- functions without state ----
    call,         \* the function under evaluation and its arguments
    ret,          \* the values it returned, in order
    \* ---- start_extraction_job, for one URL and one user ----
    jobs,         \* the extraction_jobs rows of the URL (committed state)
    recipes,      \* number of recipe rows of the user for the URL
    requests,     \* [request -> its position and the job it read or created]
    tasks         \* [job id -> state of the background task started for it]

llmVars == <<lpc, lmode, keys, behaviour, attempt, calls, last_error, lresult>>

exVars == <<ein, ex, fs, events, trace, result>>

jobVars == <<tpc, cpc, cancelAt, dbJob, sessJob, dbRecipes, dbRecipe, dbVersions, pending, jres>>

webVars == <<wpc, page, wres>>

fnVars == <<call, ret>>

startVars == <<jobs, recipes, requests, tasks>>

vars == <<lpc, lmode, keys, behaviour, attempt, calls, last_error, lresult,
          ein, ex, fs, events, trace, result,
          tpc, cpc, cancelAt, dbJob, sessJob, dbRecipes, dbRecipe, dbVersions, pending, jres,
          wpc, page, wres, call, ret,
          jobs, recipes, requests, tasks>>

-----------------------------------------------------------------------------
(* Extraction engine: app/services/llm_client.py                           *)

Providers == {"primary", "secondary"}

\* GEMINI_CONFIG / GEMINI_VISION_CONFIG "max_retries"
GEMINI_max_retries == 2
\* GPT_CONFIG / GPT_VISION_CONFIG "max_retries"
GPT_max_retries == 1

max_retries(p) == IF p = "primary" THEN GEMINI_max_retries ELSE GPT_max_retries

config_name(p) == IF p = "primary" THEN "Gemini 2.0 Flash" ELSE "GPT-4o-mini"

\* Entry points of the engine that exist in llm_client.py
SourceModes == {"text", "image", "images", "json"}
Modes == SourceModes \cup {"slideshow"}

\* What one HTTP call to a provider can produce
Failures == {"http_error", "empty", "bad_json", "exception"}
Outcomes(b) == CASE b = "fail"  -> Failures
                 [] b = "ok"    -> {"ok"}
                 [] b = "flaky" -> {"ok", "http_error"}
                 [] OTHER       -> Failures \cup {"ok"}

NoResult == [success |-> FALSE, model_used |-> "none", error |-> "pending"]

loop_iterations_short(p) == max_retries(p)

\* range(config["max_retries"] + 1): number of iterations of a retry loop
loop_iterations(p) == max_retries(p) + 1


\* Body of "for attempt in range(config["max_retries"] + 1)": one call of the
\* provider inside try/except; success returns, any failure (non-200, empty
\* body, unparseable JSON, raised exception) is recorded in last_error and
\* the loop goes on.
retry_iteration(p) ==
    /\ lpc = p
    /\ attempt < loop_iterations(p)
    /\ \E o \in Outcomes(behaviour[p]) :
        /\ calls' = [calls EXCEPT ![p] = @ + 1]
        /\ IF o = "ok"
           THEN /\ lresult' = [success |-> TRUE, model_used |-> p, error |-> "none"]
                /\ lpc' = "done"
                /\ UNCHANGED <<attempt, last_error>>
           ELSE /\ last_error' = o
                /\ attempt' = attempt + 1
                /\ UNCHANGED <<lresult, lpc>>
    /\ UNCHANGED <<lmode, keys, behaviour>>
    /\ UNCHANGED <<exVars, jobVars, webVars, startVars, fnVars>>

\* _try_extraction: the retry loop of the text entry point
try_extraction(p) == lmode = "text" /\ retry_iteration(p)

\* _try_vision_extraction: the retry loop of single-image OCR
try_vision_extraction(p) == lmode = "image" /\ retry_iteration(p)

\* _try_multi_image_extraction: the retry loop of multi-image OCR
try_multi_image_extraction(p) == lmode = "images" /\ retry_iteration(p)

\* extract_from_tiktok_slideshow is called by the orchestrator but is not part
\* of llm_client.py; it is taken to be one more mode of the same engine.
try_slideshow_extraction(p) == lmode = "slideshow" /\ retry_iteration(p)

\* The retry loop ran out: _try_* returns ExtractionResult(success=False,
\* error=last_error) and the entry point moves on.
retry_exhausted(p) ==
    /\ lpc = p
    /\ lmode # "json"
    /\ attempt >= loop_iterations(p)
    /\ lpc' = IF p = "primary" THEN "fallback" ELSE "failed"
    /\ UNCHANGED <<lmode, keys, behaviour, attempt, calls, last_error, lresult>>
    /\ UNCHANGED <<exVars, jobVars, webVars, startVars, fnVars>>

\* generate_json: _call_simple_llm is awaited once per provider inside
\* try/except; a truthy dict is returned, anything else falls through.
call_simple_llm(p) ==
    /\ lpc = p
    /\ lmode = "json"
    /\ \E o \in Outcomes(behaviour[p]) :
        /\ calls' = [calls EXCEPT ![p] = @ + 1]
        /\ IF o = "ok"
           THEN /\ lresult' = [success |-> TRUE, model_used |-> p, error |-> "none"]
                /\ lpc' = "done"
                /\ UNCHANGED last_error
           ELSE /\ last_error' = o
                /\ lpc' = IF p = "primary" THEN "fallback" ELSE "failed"
                /\ UNCHANGED lresult
    /\ UNCHANGED <<lmode, keys, behaviour, attempt>>
    /\ UNCHANGED <<exVars, jobVars, webVars, startVars, fnVars>>

\* "if self.openrouter_api_key:" the primary is tried first
engine_try_primary ==
    /\ lpc = "start"
    /\ keys["primary"]
    /\ lpc' = "primary"
    /\ attempt' = 0
    /\ last_error' = "none"
    /\ UNCHANGED <<lmode, keys, behaviour, calls, lresult>>
    /\ UNCHANGED <<exVars, jobVars, webVars, startVars, fnVars>>

engine_skip_primary ==
    /\ lpc = "start"
    /\ ~keys["primary"]
    /\ lpc' = "fallback"
    /\ UNCHANGED <<lmode, keys, behaviour, attempt, calls, last_error, lresult>>
    /\ UNCHANGED <<exVars, jobVars, webVars, startVars, fnVars>>

\* "if use_fallback and self.openai_api_key:" (no caller passes use_fallback=False)
engine_fallback ==
    /\ lpc = "fallback"
    /\ keys["secondary"]
    /\ lpc' = "secondary"
    /\ attempt' = 0
    /\ last_error' = "none"
    /\ UNCHANGED <<lmode, keys, behaviour, calls, lresult>>
    /\ UNCHANGED <<exVars, jobVars, webVars, startVars, fnVars>>

engine_no_fallback ==
    /\ lpc = "fallback"
    /\ ~keys["secondary"]
    /\ lpc' = "failed"
    /\ UNCHANGED <<lmode, keys, behaviour, attempt, calls, last_error, lresult>>
    /\ UNCHANGED <<exVars, jobVars, webVars, startVars, fnVars>>

engine_both_failed_last_error ==
    /\ lpc = "failed"
    /\ lresult' = [success |-> FALSE, model_used |-> "none", error |-> last_error]
    /\ lpc' = "done"
    /\ UNCHANGED <<lmode, keys, behaviour, attempt, calls, last_error>>
    /\ UNCHANGED <<exVars, jobVars, webVars, startVars, fnVars>>

\* "Both failed": the generic result (None for generate_json)
engine_both_failed ==
    /\ lpc = "failed"
    /\ lresult' = [success |-> FALSE, model_used |-> "none", error |-> "all_failed"]
    /\ lpc' = "done"
    /\ UNCHANGED <<lmode, keys, behaviour, attempt, calls, last_error>>
    /\ UNCHANGED <<exVars, jobVars, webVars, startVars, fnVars>>

-----------------------------------------------------------------------------
(* Audio extractor: app/services/video.py                                  *)

\* VIDEO_ERROR_PATTERNS, in dictionary order: the code of each pattern
VIDEO_ERROR_PATTERNS ==
    << "VIDEO_UNAVAILABLE",        \* "video unavailable"
       "VIDEO_REMOVED",            \* "this video has been removed"
       "VIDEO_PRIVATE",            \* "video is private"
       "VIDEO_PRIVATE",            \* "private video"
       "AGE_RESTRICTED",           \* "sign in to confirm your age"
       "AGE_RESTRICTED",           \* "age-restricted"
       "INSTAGRAM_AUTH_REQUIRED",  \* "login required"
       "RATE_LIMITED",             \* "rate-limit"
       "ACCOUNT_NOT_FOUND",        \* "couldn't find this account"
       "VIDEO_UNAVAILABLE",        \* "video is currently unavailable"
       "VIDEO_REMOVED",            \* "video has been removed by the uploader"
       "VIDEO_REMOVED",            \* "video has been removed for violating"
       "VIDEO_UNAVAILABLE",        \* "this video is not available"
       "MEMBERS_ONLY",             \* "join this channel to get access"
       "EXTRACTION_FAILED",        \* "unable to extract"
       "NOT_FOUND",                \* "http error 404"
       "ACCESS_DENIED" >>          \* "http error 403"

\* How many of the table's patterns one stderr text may contain at once
MaxStderrPatterns == 2

\* A stderr text, as the set of table entries whose pattern occurs in it
StderrTexts ==
    {m \in SUBSET (1..Len(VIDEO_ERROR_PATTERNS)) : Cardinality(m) <= MaxStderrPatterns}

Min(S) == CHOOSE x \in S : \A y \in S : x <= y

get_friendly_video_error_site(raw_error, platform) ==
    IF raw_error # {}
    THEN VIDEO_ERROR_PATTERNS[Min(raw_error)]
    ELSE "SITE_ERROR"

\* get_friendly_video_error: the first pattern of the table found in the
\* text decides; with no pattern, a code that depends on the platform.
get_friendly_video_error(raw_error, platform) ==
    IF raw_error # {}
    THEN VIDEO_ERROR_PATTERNS[Min(raw_error)]
    ELSE CASE platform = "instagram" -> "INSTAGRAM_ERROR"
           [] platform = "tiktok"    -> "TIKTOK_ERROR"
           [] platform = "youtube"   -> "YOUTUBE_ERROR"
           [] OTHER                  -> "UNKNOWN_ERROR"

AudioSuccess == [success |-> TRUE, file_path |-> TRUE, error_code |-> "", friendly_error |-> FALSE]
AudioFailure(code) == [success |-> FALSE, file_path |-> FALSE, error_code |-> code, friendly_error |-> TRUE]

\* download_audio: every AudioExtractionResult it can return for a platform
download_audio(platform) ==
    {AudioSuccess}
    \cup {AudioFailure(get_friendly_video_error(t, platform)) : t \in StderrTexts}
    \cup {AudioFailure("NO_AUDIO"), AudioFailure("TIMEOUT"),
          AudioFailure("SYSTEM_ERROR"), AudioFailure("UNKNOWN_ERROR")}

EmptyMetadata == [title |-> "", description |-> "", thumbnail |-> ""]

\* fetch_oembed: title and thumbnail_url of the embed endpoint (never a
\* description), or an empty VideoMetadata on any failure and for "web".
fetch_oembed(platform) ==
    IF platform = "web"
    THEN {EmptyMetadata}
    ELSE {[title |-> t, description |-> "", thumbnail |-> th] :
             t \in {"", "oembed"}, th \in {"", "oembed"}}

\* get_video_metadata_ytdlp: the fields of the JSON dump, or an empty
\* VideoMetadata on any failure (every exception is caught inside).
get_video_metadata_ytdlp ==
    {[title |-> t, description |-> d, thumbnail |-> th] :
        t \in {"", "ytdlp"}, d \in {"", "ytdlp"}, th \in {"", "ytdlp"}}

-----------------------------------------------------------------------------
(* The task's database session: app/db/database.py, app/routers/extract.py *)

\* select(ExtractionJob) in the task session. expire_on_commit=False: an
\* instance already in the identity map keeps its loaded attributes unless
\* the query asks for populate_existing.
session_select(populate_existing) ==
    IF sessJob = <<>> \/ populate_existing THEN <<dbJob>> ELSE sessJob

\* db.commit() after attribute assignments: the UPDATE carries the columns
\* whose value differs from the loaded one.
orm_commit(loaded, new) ==
    [f \in DOMAIN dbJob |-> IF new[f] # loaded[f] THEN new[f] ELSE dbJob[f]]

\* RecipeVersion rows that the next commit of the task session inserts
new_version_rows == IF "version" \in pending THEN 1 ELSE 0

\* update_progress: the progress callback of both job runners
update_progress(step, progress) ==
    LET loaded == session_select(FALSE)[1]
        new    == [loaded EXCEPT !.progress = progress, !.current_step = step]
    IN  /\ dbJob' = orm_commit(loaded, new)
        /\ sessJob' = <<new>>

-----------------------------------------------------------------------------
(* Confidence evaluator, _check_extraction_confidence:                     *)
(* app/services/extractor.py                                               *)

metadata_warnings(extraction_quality, has_audio_transcript) ==
    IF ~has_audio_transcript /\ extraction_quality = "low"
    THEN <<"extracted from limited metadata only">> ELSE <<>>

content_warnings(raw_text) ==
    IF raw_text.word_count < 50 THEN <<"very little content was found">> ELSE <<>>

music_warnings_music_only(raw_text, has_audio_transcript) ==
    IF raw_text.word_count = 0 THEN <<>>
    ELSE IF /\ raw_text.music_indicators >= 3
            /\ raw_text.recipe_word_count_spoken < 3
            /\ ~raw_text.metadata_has_rich_recipe_info
    THEN <<"the audio appears to be mostly music without recipe instructions">>
    ELSE <<>>


music_warnings(raw_text, has_audio_transcript) ==
    IF raw_text.word_count = 0 THEN <<>>
    ELSE IF /\ raw_text.music_indicators >= 3
            /\ raw_text.recipe_word_count_spoken < 3
            /\ ~raw_text.metadata_has_rich_recipe_info
    THEN <<"the audio appears to be mostly music without recipe instructions">>
    ELSE IF /\ has_audio_transcript
            /\ raw_text.recipe_word_count_spoken < 2
            /\ raw_text.spoken_content_long
            /\ ~raw_text.metadata_has_rich_recipe_info
    THEN <<"the audio didn't contain clear recipe instructions">>
    ELSE <<>>

\* lower is title.lower(); a title shorter than three characters is "".
recipe_warnings(recipe) ==
    LET lower(title) ==
            CASE title = "Recipe " -> "recipe "
              [] title = "Pancakes" -> "pancakes"
              [] title = "Dish" -> "dish"
              [] OTHER -> title
        generic_titles == {"recipe", "dish", "food", "meal", "untitled", "unknown"}
    IN
    IF ~recipe.present THEN <<>>
    ELSE (IF recipe.total_ingredients = 0
          THEN <<"no ingredients could be identified">>
          ELSE IF recipe.total_ingredients < 3
          THEN <<"very few ingredients were found">>
          ELSE IF /\ recipe.vague_ingredients > 0
                  /\ 2 * recipe.vague_ingredients >= recipe.total_ingredients
          THEN <<"many ingredient quantities are unclear">>
          ELSE <<>>)
         \o (IF recipe.total_steps = 0
             THEN <<"no cooking steps could be identified">> ELSE <<>>)
         \o (IF lower(recipe.title) \in generic_titles \/ recipe.title = ""
             THEN <<"the recipe title may need to be updated">> ELSE <<>>)

check_extraction_confidence_joins_all(recipe, raw_text, extraction_quality, has_audio_transcript) ==
    LET warnings ==
            metadata_warnings(extraction_quality, has_audio_transcript)
                \o content_warnings(raw_text)
                \o music_warnings(raw_text, has_audio_transcript)
                \o recipe_warnings(recipe)
    IN  [low_confidence |-> warnings # <<>>, confidence_warning |-> warnings]

confidence_warnings_content_last(recipe, raw_text, extraction_quality, has_audio_transcript) ==
    metadata_warnings(extraction_quality, has_audio_transcript)
        \o music_warnings(raw_text, has_audio_transcript)
        \o recipe_warnings(recipe)
        \o content_warnings(raw_text)

\* The warnings in the order the four checks append them.
confidence_warnings(recipe, raw_text, extraction_quality, has_audio_transcript) ==
    metadata_warnings(extraction_quality, has_audio_transcript)
        \o content_warnings(raw_text)
        \o music_warnings(raw_text, has_audio_transcript)
        \o recipe_warnings(recipe)

\* _check_extraction_confidence: the message joins the first two warnings;
\* confidence_warning keeps them as the list that is joined, <<>> for None.
check_extraction_confidence(recipe, raw_text, extraction_quality, has_audio_transcript) ==
    LET warnings ==
            confidence_warnings(recipe, raw_text, extraction_quality,
                                has_audio_transcript)
    IN  [low_confidence |-> warnings # <<>>,
         confidence_warning |->
             SubSeq(warnings, 1, IF Len(warnings) < 2 THEN Len(warnings) ELSE 2)]

-----------------------------------------------------------------------------
(* Orchestrator: app/services/extractor.py                                 *)

NoExtractResult ==
    [kind |-> "none", type |-> "FullExtractionResult",
     success |-> FALSE, error_code |-> "", error |-> "",
     friendly_error |-> "", thumbnail_url |-> "", extraction_method |-> "oembed",
     extraction_quality |-> "low", has_audio_transcript |-> FALSE]

\* An exception leaving extract
Raised == [NoExtractResult EXCEPT !.kind = "raised"]

\* FullExtractionResult(success=False, ...)
Failure(code, error, friendly) ==
    [NoExtractResult EXCEPT !.kind = "returned", !.error_code = code,
                            !.error = error, !.friendly_error = friendly]

\* FullExtractionResult(success=True, ...)
Success(thumbnail, method, quality, has_audio) ==
    [NoExtractResult EXCEPT !.kind = "returned", !.success = TRUE,
                            !.thumbnail_url = thumbnail,
                            !.extraction_method = method,
                            !.extraction_quality = quality,
                            !.has_audio_transcript = has_audio]

ExtractLocals ==
    [pc |-> "idle", oembed |-> EmptyMetadata, metadata |-> EmptyMetadata,
     ytdlp_metadata |-> <<>>,
     thumbnail_url |-> "", combined_content |-> {}, content_title |-> "",
     extraction_method |-> "oembed", extraction_quality |-> "low",
     has_audio_transcript |-> FALSE, audio_file_path |-> FALSE,
     audio_error_code |-> "", audio_friendly_error |-> FALSE,
     low_confidence |-> FALSE, confidence_warning |-> <<>>]

ProgressEvent(step, progress) == [step |-> step, progress |-> progress, by |-> "extract"]

\* "if progress_callback: await progress_callback(ExtractionProgress(...))"
\* on the video path, where nothing catches what the sink raises.
report(from, step, progress, to) ==
    /\ ex.pc = from
    /\ \/ /\ ein.progress_callback = "none"
          /\ ex' = [ex EXCEPT !.pc = to]
          /\ UNCHANGED <<events, dbJob, sessJob, result>>
       \/ /\ ein.progress_callback = "sink"
          /\ events' = Append(events, ProgressEvent(step, progress))
          /\ ex' = [ex EXCEPT !.pc = to]
          /\ UNCHANGED <<dbJob, sessJob, result>>
       \/ /\ ein.progress_callback = "sink"
          /\ events' = Append(events, ProgressEvent(step, progress))
          /\ ex' = [ex EXCEPT !.pc = "raised"]
          /\ result' = Raised
          /\ UNCHANGED <<dbJob, sessJob>>
       \/ /\ ein.progress_callback = "update_progress"
          /\ events' = Append(events, ProgressEvent(step, progress))
          /\ update_progress(step, progress)
          /\ ex' = [ex EXCEPT !.pc = to]
          /\ UNCHANGED result
    /\ UNCHANGED <<ein, fs, trace, llmVars, webVars, startVars, fnVars>>
    /\ UNCHANGED <<tpc, cpc, cancelAt, dbRecipes, dbRecipe, dbVersions, pending, jres>>

\* Frame of a step of extract that reports no progress
ExtractFrame == UNCHANGED <<ein, events, llmVars, jobVars, webVars, startVars, fnVars>>

\* Step 1: detect_platform and the "detecting" event
report_detecting ==
    /\ ex.pc = "start"
    /\ report("start", "detecting", 10, "resolve")

\* Step 1.5: a TikTok short link is resolved with normalize_url (which
\* returns the link unchanged when the request fails); a resolved URL with
\* "/photo/" goes to the slideshow path.
resolve_tiktok ==
    /\ ex.pc = "resolve"
    /\ \E target \in {"video", "photo", "unresolved"} :
         LET photo == IF ein.platform = "tiktok" /\ ein.short_link
                      THEN target = "photo"
                      ELSE ein.platform = "tiktok" /\ ein.photo_url
         IN ex' = [ex EXCEPT !.pc = IF photo THEN "photo_start" ELSE "metadata"]
    /\ UNCHANGED <<fs, trace, result>>
    /\ ExtractFrame

\* Step 2: the "metadata" event
report_metadata ==
    /\ ex.pc = "metadata"
    /\ report("metadata", "metadata", 20, "oembed")

\* fetch_oembed, then yt-dlp metadata when the platform is Instagram or the
\* embed data lacks a thumbnail or a description; each field keeps the embed
\* value unless it is empty (lines 237-267).  ex.oembed keeps what
\* fetch_oembed returned, ex.content_title the title written into
\* combined_content.
fetch_metadata ==
    /\ ex.pc = "oembed"
    /\ \E o \in fetch_oembed(ein.platform), y \in get_video_metadata_ytdlp :
         IF ein.platform = "instagram" \/ o.thumbnail = "" \/ o.description = ""
         THEN LET th == IF y.thumbnail # "" /\ o.thumbnail = "" THEN y.thumbnail ELSE o.thumbnail
                  md == IF y.title # "" /\ o.title = ""
                        THEN [title |-> y.title, description |-> y.description, thumbnail |-> th]
                        ELSE IF y.description # "" /\ o.description = ""
                             THEN [title |-> o.title, description |-> y.description, thumbnail |-> th]
                             ELSE o
              IN ex' = [ex EXCEPT !.pc = "audio", !.oembed = o, !.metadata = md,
                                  !.ytdlp_metadata = <<y>>, !.thumbnail_url = th]
         ELSE ex' = [ex EXCEPT !.pc = "audio", !.oembed = o, !.metadata = o,
                               !.thumbnail_url = o.thumbnail]
    /\ UNCHANGED <<fs, trace, result>>
    /\ ExtractFrame

\* Step 3, fast_mode: no audio, the "metadata_fast" event
report_metadata_fast ==
    /\ ein.fast_mode
    /\ report("audio", "metadata_fast", 35, "fallback")

report_downloading_in_fast_mode ==
    /\ ein.platform \in {"youtube", "tiktok", "instagram"}
    /\ report("audio", "downloading", 30, "download")

\* Step 3, a video platform: the "downloading" event
report_downloading ==
    /\ ~ein.fast_mode
    /\ ein.platform \in {"youtube", "tiktok", "instagram"}
    /\ report("audio", "downloading", 30, "download")

\* Step 3, neither: nothing to download
skip_audio ==
    /\ ex.pc = "audio"
    /\ ~ein.fast_mode
    /\ ein.platform \notin {"youtube", "tiktok", "instagram"}
    /\ ex' = [ex EXCEPT !.pc = "fallback"]
    /\ UNCHANGED <<fs, trace, result>>
    /\ ExtractFrame

\* download_audio: mkdtemp creates the directory; on success the audio file
\* is inside it and its path is kept, on failure the error code and the
\* friendly message are kept (lines 293-296, 325-335).
download_audio_step ==
    /\ ex.pc = "download"
    /\ \E audio_result \in download_audio(ein.platform) :
         IF audio_result.success /\ audio_result.file_path
         THEN /\ fs' = [file |-> TRUE, dir |-> TRUE]
              /\ ex' = [ex EXCEPT !.pc = "transcribing", !.audio_file_path = TRUE]
         ELSE /\ fs' = [file |-> FALSE, dir |-> TRUE]
              /\ ex' = [ex EXCEPT !.pc = "fallback",
                                  !.audio_error_code = audio_result.error_code,
                                  !.audio_friendly_error = audio_result.friendly_error]
    /\ trace' = trace \cup {"download_audio"}
    /\ UNCHANGED result
    /\ ExtractFrame

\* the "transcribing" event, between the download and the cleanup
report_transcribing ==
    /\ ex.pc = "transcribing"
    /\ report("transcribing", "transcribing", 50, "transcribe")

content_parts_none(md) == {}

\* ContentParts: what combined_content is made of
content_parts(md) ==
    (IF md.title # "" THEN {"title"} ELSE {})
    \cup (IF md.description # "" THEN {"description"} ELSE {})

\* transcribe_audio (which catches every exception) and, with a non-empty
\* text, the combined content of the whisper method (lines 306-324).
transcribe_step ==
    /\ ex.pc = "transcribe"
    /\ \E transcription \in {[success |-> TRUE, text |-> TRUE],
                             [success |-> TRUE, text |-> FALSE],
                             [success |-> FALSE, text |-> FALSE]} :
         IF transcription.success /\ transcription.text
         THEN ex' = [ex EXCEPT !.pc = "fallback",
                               !.combined_content = content_parts(ex.metadata) \cup {"spoken"},
                               !.content_title = ex.metadata.title,
                               !.extraction_method = "whisper",
                               !.extraction_quality = "high",
                               !.has_audio_transcript = TRUE]
         ELSE ex' = [ex EXCEPT !.pc = "fallback"]
    /\ trace' = trace \cup {"transcribe_audio"}
    /\ UNCHANGED <<fs, result>>
    /\ ExtractFrame

\* Fallback: nothing was transcribed, the "metadata_fallback" event
report_metadata_fallback ==
    /\ ex.combined_content = {}
    /\ report("fallback", "metadata_fallback", 40, "fallback_metadata")

skip_metadata_fallback ==
    /\ ex.pc = "fallback"
    /\ ex.combined_content # {}
    /\ ex' = [ex EXCEPT !.pc = "notes"]
    /\ UNCHANGED <<fs, trace, result>>
    /\ ExtractFrame

fallback_quality_medium(description) == "medium"

\* extraction_quality = "medium" if description else "low"
fallback_quality(description) == IF description # "" THEN "medium" ELSE "low"

fallback_value_prefers_embed(ytdlp_value, metadata_value) ==
    IF metadata_value # "" THEN metadata_value ELSE ytdlp_value

\* "Prefer yt-dlp data over oEmbed for fallback"
fallback_value(ytdlp_value, metadata_value) ==
    IF ytdlp_value # "" THEN ytdlp_value ELSE metadata_value

\* Metadata-only extraction: yt-dlp data is preferred over the embed data;
\* with a title or a description the method is "basic", else the embed
\* title alone is the content (lines 348-373).
metadata_only ==
    /\ ex.pc = "fallback_metadata"
    /\ \E fetched \in get_video_metadata_ytdlp :
         LET y           == IF ex.ytdlp_metadata = <<>> THEN fetched ELSE ex.ytdlp_metadata[1]
             title       == fallback_value(y.title, ex.metadata.title)
             description == fallback_value(y.description, ex.metadata.description)
         IN IF title # "" \/ description # ""
            THEN ex' = [ex EXCEPT
                          !.pc = "notes",
                          !.ytdlp_metadata = <<y>>,
                          !.combined_content =
                              content_parts([title |-> title, description |-> description,
                                             thumbnail |-> ""]),
                          !.content_title = title,
                          !.extraction_method = "basic",
                          !.extraction_quality = fallback_quality(description),
                          !.thumbnail_url = IF y.thumbnail # "" /\ ex.thumbnail_url = ""
                                            THEN y.thumbnail ELSE ex.thumbnail_url]
            ELSE ex' = [ex EXCEPT
                          !.pc = "notes",
                          !.ytdlp_metadata = <<y>>,
                          !.combined_content = IF ex.metadata.title # "" THEN {"title"} ELSE {},
                          !.content_title = ex.metadata.title,
                          !.extraction_method = "oembed",
                          !.extraction_quality = "low"]
    /\ trace' = trace \cup {"metadata_only"}
    /\ UNCHANGED <<fs, result>>
    /\ ExtractFrame

\* cleanup_audio_file: removes the file, then its directory
cleanup_audio_file(f) ==
    IF f.file THEN [file |-> FALSE, dir |-> FALSE] ELSE f

\* The user's notes are appended, then the audio file is cleaned up
\* (lines 375-381).
notes_and_cleanup ==
    /\ ex.pc = "notes"
    /\ ex' = [ex EXCEPT !.pc = "content",
                        !.combined_content =
                            IF ein.notes THEN ex.combined_content \cup {"notes"}
                                         ELSE ex.combined_content]
    /\ fs' = IF ex.audio_file_path THEN cleanup_audio_file(fs) ELSE fs
    /\ UNCHANGED <<trace, result>>
    /\ ExtractFrame

DefinitivelyUnavailable_public ==
    {"VIDEO_UNAVAILABLE", "VIDEO_REMOVED", "VIDEO_PRIVATE",
     "NOT_FOUND", "ACCOUNT_NOT_FOUND"}

\* Error codes for which the video is definitively unavailable (line 388)
DefinitivelyUnavailable ==
    {"VIDEO_UNAVAILABLE", "VIDEO_REMOVED", "VIDEO_PRIVATE",
     "NOT_FOUND", "ACCOUNT_NOT_FOUND", "MEMBERS_ONLY"}

\* Step 4 with an empty combined content: the failure results of
\* lines 384-432.
no_content ==
    /\ ex.pc = "content"
    /\ ex.combined_content = {}
    /\ result' =
         IF /\ ex.audio_error_code # "" /\ ex.audio_friendly_error
            /\ ex.audio_error_code \in DefinitivelyUnavailable
         THEN Failure(ex.audio_error_code, "audio_friendly", "audio_friendly")
         ELSE IF ein.platform = "instagram"
              THEN Failure("INSTAGRAM_AUTH_REQUIRED", "instagram_alternatives",
                           "instagram_login")
              ELSE Failure(IF ex.audio_error_code # "" THEN ex.audio_error_code
                                                       ELSE "NO_CONTENT",
                           "no_content",
                           IF ex.audio_friendly_error THEN "audio_friendly"
                                                      ELSE "no_content_generic")
    /\ ex' = [ex EXCEPT !.pc = "done"]
    /\ UNCHANGED <<fs, trace>>
    /\ ExtractFrame

report_extracting_as_complete ==
    /\ ex.combined_content # {}
    /\ report("content", "complete", 100, "llm")

\* the "extracting" event
report_extracting ==
    /\ ex.combined_content # {}
    /\ report("content", "extracting", 70, "llm")

\* llm_service.extract_recipe is awaited
call_extract_recipe ==
    /\ ex.pc = "llm"
    /\ lpc' = "start"
    /\ lmode' = "text"
    /\ attempt' = 0
    /\ calls' = [p \in Providers |-> 0]
    /\ last_error' = "none"
    /\ lresult' = NoResult
    /\ ex' = [ex EXCEPT !.pc = "llm_wait"]
    /\ trace' = trace \cup {"llm"}
    /\ UNCHANGED <<keys, behaviour, ein, fs, events, result, jobVars, webVars, startVars, fnVars>>

\* extract_recipe returned: LLM_EXTRACTION_FAILED, or the successful
\* FullExtractionResult (lines 447-484).
extract_recipe_returned ==
    /\ ex.pc = "llm_wait"
    /\ lpc = "done"
    /\ result' =
         IF ~lresult.success
         THEN Failure("LLM_EXTRACTION_FAILED", lresult.error, "llm_generic")
         ELSE Success(ex.thumbnail_url, ex.extraction_method,
                      ex.extraction_quality, ex.has_audio_transcript)
    /\ ex' = [ex EXCEPT !.pc = "done"]
    /\ lpc' = "idle"
    /\ UNCHANGED <<lmode, keys, behaviour, attempt, calls, last_error, lresult>>
    /\ UNCHANGED <<ein, fs, events, trace, jobVars, webVars, startVars, fnVars>>

\* --- _extract_from_tiktok_photo: everything runs inside try/except ---

PhotoError(thumbnail) ==
    [Failure("TIKTOK_PHOTO_ERROR", "exception_text", "photo_generic")
        EXCEPT !.thumbnail_url = thumbnail]

\* A progress event inside the try block: what the sink raises is caught
\* and becomes a TIKTOK_PHOTO_ERROR result.
report_in_try(from, step, progress, to) ==
    /\ ex.pc = from
    /\ \/ /\ ein.progress_callback = "none"
          /\ ex' = [ex EXCEPT !.pc = to]
          /\ UNCHANGED <<events, dbJob, sessJob, result>>
       \/ /\ ein.progress_callback = "sink"
          /\ events' = Append(events, ProgressEvent(step, progress))
          /\ ex' = [ex EXCEPT !.pc = to]
          /\ UNCHANGED <<dbJob, sessJob, result>>
       \/ /\ ein.progress_callback = "sink"
          /\ events' = Append(events, ProgressEvent(step, progress))
          /\ ex' = [ex EXCEPT !.pc = "done"]
          /\ result' = PhotoError(ex.thumbnail_url)
          /\ UNCHANGED <<dbJob, sessJob>>
       \/ /\ ein.progress_callback = "update_progress"
          /\ events' = Append(events, ProgressEvent(step, progress))
          /\ update_progress(step, progress)
          /\ ex' = [ex EXCEPT !.pc = to]
          /\ UNCHANGED result
    /\ UNCHANGED <<ein, fs, trace, llmVars, webVars, startVars, fnVars>>
    /\ UNCHANGED <<tpc, cpc, cancelAt, dbRecipes, dbRecipe, dbVersions, pending, jres>>

report_fetching_images ==
    /\ ex.pc = "photo_start"
    /\ report_in_try("photo_start", "fetching_images", 20, "photo_fetch")

\* fetch_tiktok_photo_images: no image is NO_IMAGES_FOUND, else the first
\* image is the thumbnail.
fetch_photo_images ==
    /\ ex.pc = "photo_fetch"
    /\ \E found \in BOOLEAN :
         IF found
         THEN /\ ex' = [ex EXCEPT !.pc = "photo_images", !.thumbnail_url = "image"]
              /\ UNCHANGED result
         ELSE /\ ex' = [ex EXCEPT !.pc = "done"]
              /\ result' = Failure("NO_IMAGES_FOUND", "no_images", "no_images_friendly")
    /\ UNCHANGED <<fs, trace>>
    /\ ExtractFrame

report_downloading_images ==
    /\ ex.pc = "photo_images"
    /\ report_in_try("photo_images", "downloading_images", 35, "photo_download")

\* download_images_as_base64: no image downloaded is IMAGE_DOWNLOAD_FAILED
download_photo_images ==
    /\ ex.pc = "photo_download"
    /\ \E downloaded \in BOOLEAN :
         IF downloaded
         THEN /\ ex' = [ex EXCEPT !.pc = "photo_downloaded"]
              /\ UNCHANGED result
         ELSE /\ ex' = [ex EXCEPT !.pc = "done"]
              /\ result' = Failure("IMAGE_DOWNLOAD_FAILED", "download_failed",
                                   "download_failed_friendly")
    /\ UNCHANGED <<fs, trace>>
    /\ ExtractFrame

report_analyzing ==
    /\ ex.pc = "photo_downloaded"
    /\ report_in_try("photo_downloaded", "analyzing", 50, "photo_vision")

\* llm_service.extract_from_tiktok_slideshow is awaited
call_slideshow_vision ==
    /\ ex.pc = "photo_vision"
    /\ lpc' = "start"
    /\ lmode' = "slideshow"
    /\ attempt' = 0
    /\ calls' = [p \in Providers |-> 0]
    /\ last_error' = "none"
    /\ lresult' = NoResult
    /\ ex' = [ex EXCEPT !.pc = "photo_vision_wait"]
    /\ trace' = trace \cup {"vision"}
    /\ UNCHANGED <<keys, behaviour, ein, fs, events, result, jobVars, webVars, startVars, fnVars>>

\* the vision result: VISION_EXTRACTION_FAILED, or on to step 4
slideshow_vision_returned ==
    /\ ex.pc = "photo_vision_wait"
    /\ lpc = "done"
    /\ IF ~lresult.success
       THEN /\ ex' = [ex EXCEPT !.pc = "done"]
            /\ result' = [Failure("VISION_EXTRACTION_FAILED", lresult.error,
                                  "vision_generic")
                             EXCEPT !.thumbnail_url = ""]
       ELSE /\ ex' = [ex EXCEPT !.pc = "photo_parse"]
            /\ UNCHANGED result
    /\ lpc' = "idle"
    /\ UNCHANGED <<lmode, keys, behaviour, attempt, calls, last_error, lresult>>
    /\ UNCHANGED <<ein, fs, events, trace, jobVars, webVars, startVars, fnVars>>

report_photo_extracting ==
    /\ ex.pc = "photo_parse"
    /\ report_in_try("photo_parse", "extracting", 80, "photo_result")

\* the successful slideshow result (lines 581-608)
PhotoPostRawTextOfFiftyWords ==
    [word_count |-> 50, music_indicators |-> 0, recipe_word_count_spoken |-> 0,
     spoken_content_long |-> FALSE, metadata_has_rich_recipe_info |-> FALSE]

\* raw_text = f"[TikTok Photo Post - {len(base64_images)} images analyzed]":
\* seven words, no music glyph, no "SPOKEN CONTENT" and no "VIDEO TITLE" part
PhotoPostRawText ==
    [word_count |-> 7, music_indicators |-> 0, recipe_word_count_spoken |-> 0,
     spoken_content_long |-> FALSE, metadata_has_rich_recipe_info |-> FALSE]

\* What the vision entry extracted from the images, as the evaluator counts
\* it: a full draft, or one without ingredients and steps
SlideshowRecipes ==
    {[present |-> TRUE, total_ingredients |-> n, vague_ingredients |-> 0,
      total_steps |-> IF n = 0 THEN 0 ELSE 1, title |-> "Pancakes"] : n \in {0, 3}}

\* The confidence check on the placeholder text and the successful result
\* (lines 586-608); low_confidence and confidence_warning are kept among the
\* locals, as the values the result carries.
photo_success ==
    /\ ex.pc = "photo_result"
    /\ result' = Success(ex.thumbnail_url, "tiktok_photo_vision", "good", FALSE)
    /\ \E recipe \in SlideshowRecipes :
         LET checked == check_extraction_confidence(recipe, PhotoPostRawText, "good", FALSE)
         IN  ex' = [ex EXCEPT !.pc = "done",
                              !.low_confidence = checked.low_confidence,
                              !.confidence_warning = checked.confidence_warning]
    /\ UNCHANGED <<fs, trace>>
    /\ ExtractFrame

ExtractSteps ==
    \/ report_detecting
    \/ resolve_tiktok
    \/ report_metadata
    \/ fetch_metadata
    \/ report_downloading
    \/ download_audio_step
    \/ report_transcribing
    \/ transcribe_step
    \/ report_metadata_fallback
    \/ skip_metadata_fallback
    \/ metadata_only
    \/ notes_and_cleanup
    \/ no_content
    \/ report_extracting
    \/ call_extract_recipe
    \/ extract_recipe_returned
    \/ report_fetching_images
    \/ fetch_photo_images
    \/ report_downloading_images
    \/ download_photo_images
    \/ report_analyzing
    \/ call_slideshow_vision
    \/ slideshow_vision_returned
    \/ report_photo_extracting
    \/ photo_success

-----------------------------------------------------------------------------
(* Job runners and cancel_job: app/routers/extract.py                      *)

JobEvent(step, progress) == [step |-> step, progress |-> progress, by |-> "job"]

\* website_service.extract: a WebsiteExtractionResult (a dataclass without
\* low_confidence, confidence_warning and friendly_error)
WebsiteResults ==
    {[NoExtractResult EXCEPT !.kind = "returned", !.type = "WebsiteExtractionResult",
                             !.success = TRUE, !.thumbnail_url = th,
                             !.extraction_method = m, !.extraction_quality = q,
                             !.error = ""] :
        th \in {"", "page"},
        m \in {"website-jsonld"}, q \in {"high"}}
    \cup
    {[NoExtractResult EXCEPT !.kind = "returned", !.type = "WebsiteExtractionResult",
                             !.success = TRUE, !.thumbnail_url = th,
                             !.extraction_method = "website-ai",
                             !.extraction_quality = "good"] : th \in {"", "page"}}
    \cup
    {[NoExtractResult EXCEPT !.kind = "returned", !.type = "WebsiteExtractionResult",
                             !.extraction_method = "website",
                             !.extraction_quality = "good",
                             !.error = "website_error"]}

\* Frame of a step of a job runner that touches neither extract nor the engine
JobFrame == UNCHANGED <<ein, ex, fs, result, llmVars, webVars, startVars, fnVars>>

\* run_extraction_job, platform "web": the "fetching" event (lines 487-495)
job_report_fetching ==
    /\ tpc = "start"
    /\ ein.platform = "web"
    /\ events' = Append(events, JobEvent("fetching", 20))
    /\ update_progress("fetching", 20)
    /\ tpc' = "website"
    /\ UNCHANGED <<cpc, cancelAt, dbRecipes, dbRecipe, dbVersions, pending, jres, trace>>
    /\ JobFrame

\* website_service.extract returns (lines 497-502)
job_website_extract ==
    /\ tpc = "website"
    /\ jres' \in WebsiteResults
    /\ tpc' = "get_job"
    /\ UNCHANGED <<cpc, cancelAt, dbJob, sessJob, dbRecipes, dbRecipe, dbVersions, pending>>
    /\ UNCHANGED <<events, trace>>
    /\ JobFrame

\* recipe_extractor.extract is awaited with update_progress as the sink
\* (lines 503-510)
job_call_extract ==
    /\ tpc = "start"
    /\ ein.platform # "web"
    /\ ex' = [ExtractLocals EXCEPT !.pc = "start"]
    /\ tpc' = "extract"
    /\ UNCHANGED <<cpc, cancelAt, dbJob, sessJob, dbRecipes, dbRecipe, dbVersions, pending, jres>>
    /\ UNCHANGED <<ein, fs, events, trace, result, llmVars, webVars, startVars, fnVars>>

job_extract_returned ==
    /\ tpc = "extract"
    /\ ex.pc = "done"
    /\ jres' = result
    /\ tpc' = "get_job"
    /\ UNCHANGED <<cpc, cancelAt, dbJob, sessJob, dbRecipes, dbRecipe, dbVersions, pending>>
    /\ UNCHANGED <<events, trace>>
    /\ JobFrame

\* "Get job record" and the early cancellation check, a plain select
\* (lines 512-525); a failed result then assigns the job's fields, where a
\* WebsiteExtractionResult has no friendly_error (lines 626-633).
job_get_job ==
    /\ tpc = "get_job"
    /\ sessJob' = session_select(FALSE)
    /\ tpc' = IF sessJob'[1].status = "cancelled" THEN "done"
              ELSE IF jres.success THEN "fresh_check"
              ELSE IF jres.type = "WebsiteExtractionResult" THEN "handler"
              ELSE "fail_commit"
    /\ UNCHANGED <<cpc, cancelAt, dbJob, dbRecipes, dbRecipe, dbVersions, pending, jres>>
    /\ UNCHANGED <<events, trace>>
    /\ JobFrame

\* The re-check before saving, with populate_existing (lines 527-550); then
\* result.low_confidence is read, which a WebsiteExtractionResult lacks.
job_fresh_check ==
    /\ tpc = "fresh_check"
    /\ sessJob' = session_select(TRUE)
    /\ tpc' = IF sessJob'[1].status = "cancelled" THEN "done"
              ELSE IF jres.type = "WebsiteExtractionResult" THEN "handler"
              ELSE "save"
    /\ UNCHANGED <<cpc, cancelAt, dbJob, dbRecipes, dbRecipe, dbVersions, pending, jres>>
    /\ UNCHANGED <<events, trace>>
    /\ JobFrame

\* db.add(new_recipe); commit; refresh (lines 552-568)
job_save_recipe ==
    /\ tpc = "save"
    /\ dbRecipes' = dbRecipes + 1
    /\ tpc' = "post_check"
    /\ UNCHANGED <<cpc, cancelAt, dbJob, sessJob, dbRecipe, dbVersions, pending, jres>>
    /\ UNCHANGED <<events, trace>>
    /\ JobFrame

\* "if job and job.status == 'cancelled'" on the job re-read after the commit
cancelled_after_save(job) == job.status = "cancelled"

\* "Check AGAIN after commit" (lines 570-577)
job_post_check ==
    /\ tpc = "post_check"
    /\ sessJob' = session_select(TRUE)
    /\ tpc' = IF cancelled_after_save(sessJob'[1]) THEN "delete"
              ELSE IF jres.thumbnail_url # "" THEN "thumbnail"
              ELSE "complete"
    /\ UNCHANGED <<cpc, cancelAt, dbJob, dbRecipes, dbRecipe, dbVersions, pending, jres>>
    /\ UNCHANGED <<events, trace>>
    /\ JobFrame

\* the saved recipe is deleted again (lines 578-581)
job_delete_recipe ==
    /\ tpc = "delete"
    /\ dbRecipes' = dbRecipes - 1
    /\ tpc' = "done"
    /\ UNCHANGED <<cpc, cancelAt, dbJob, sessJob, dbRecipe, dbVersions, pending, jres>>
    /\ UNCHANGED <<events, trace>>
    /\ JobFrame

\* the "saving" event before the thumbnail upload (lines 584-589)
job_report_saving ==
    /\ tpc = "thumbnail"
    /\ events' = Append(events, JobEvent("saving", 85))
    /\ update_progress("saving", 85)
    /\ tpc' = "upload"
    /\ UNCHANGED <<cpc, cancelAt, dbRecipes, dbRecipe, dbVersions, pending, jres, trace>>
    /\ JobFrame

\* upload_thumbnail_from_url returns an S3 URL or None (it catches every
\* exception); with a URL the recipe row is updated (lines 590-603).
job_upload_thumbnail ==
    /\ tpc = "upload"
    /\ trace' = trace \cup {"upload_thumbnail"}
    /\ tpc' = "complete"
    /\ UNCHANGED <<cpc, cancelAt, dbJob, sessJob, dbRecipes, dbRecipe, dbVersions, pending, jres>>
    /\ UNCHANGED events
    /\ JobFrame

\* the "complete" event (lines 605-616)
job_report_complete ==
    /\ tpc = "complete"
    /\ events' = Append(events, JobEvent("complete", 100))
    /\ update_progress("complete", 100)
    /\ tpc' = "finish"
    /\ UNCHANGED <<cpc, cancelAt, dbRecipes, dbRecipe, dbVersions, pending, jres, trace>>
    /\ JobFrame

\* job.status = "completed" ... and the final commit (lines 618-636,
\* 1007-1025)
job_finish ==
    /\ tpc = "finish"
    /\ LET loaded == sessJob[1]
           new    == [loaded EXCEPT !.status = "completed", !.progress = 100,
                                    !.current_step = "complete", !.recipe_id = "recipe"]
       IN /\ dbJob' = orm_commit(loaded, new)
          /\ sessJob' = <<new>>
    /\ tpc' = "done"
    /\ UNCHANGED <<cpc, cancelAt, dbRecipes, dbRecipe, dbVersions, pending, jres>>
    /\ UNCHANGED <<events, trace>>
    /\ JobFrame

\* a failed result: job.status = "failed" and the commit (lines 626-636,
\* 1015-1025)
job_fail_commit ==
    /\ tpc = "fail_commit"
    /\ LET loaded == sessJob[1]
           new    == [loaded EXCEPT !.status = "failed", !.current_step = "error"]
       IN /\ dbJob' = orm_commit(loaded, new)
          /\ sessJob' = <<new>>
    /\ tpc' = "done"
    /\ UNCHANGED <<cpc, cancelAt, dbRecipes, dbRecipe, dbVersions, pending, jres>>
    /\ UNCHANGED <<events, trace>>
    /\ JobFrame

\* "except Exception": the job is selected again (lines 638-644, 1027-1032)
job_handler_select ==
    /\ tpc = "handler"
    /\ sessJob' = session_select(FALSE)
    /\ tpc' = "handler_commit"
    /\ UNCHANGED <<cpc, cancelAt, dbJob, dbRecipes, dbRecipe, dbVersions, pending, jres>>
    /\ UNCHANGED <<events, trace>>
    /\ JobFrame

\* ... and marked failed (lines 645-650, 1033-1038). Attributes assigned
\* and objects added before the exception are still pending in the session,
\* and this commit writes them.
job_handler_commit ==
    /\ tpc = "handler_commit"
    /\ LET loaded == sessJob[1]
           new    == [loaded EXCEPT !.status = "failed",
                                    !.current_step = IF jres.success THEN @ ELSE "error"]
       IN /\ dbJob' = orm_commit(loaded, new)
          /\ sessJob' = <<new>>
    /\ dbVersions' = dbVersions + new_version_rows
    /\ pending' = {}
    /\ tpc' = "done"
    /\ UNCHANGED <<cpc, cancelAt, dbRecipes, dbRecipe, jres>>
    /\ UNCHANGED <<events, trace>>
    /\ JobFrame

\* --- run_re_extraction_job: no step of it reads the job's status ---

\* The recipe is loaded and its original data preserved once
\* (lines 861-877)
re_preserve_original ==
    /\ tpc = "re_start"
    /\ dbRecipe' = [dbRecipe EXCEPT !.original_extracted =
                       IF @ = "none" THEN dbRecipe.extracted ELSE @]
    /\ tpc' = "re_platform"
    /\ UNCHANGED <<cpc, cancelAt, dbJob, sessJob, dbRecipes, dbVersions, pending, jres>>
    /\ UNCHANGED <<events, trace>>
    /\ JobFrame

\* platform "web": the "fetching" event (lines 882-890)
re_report_fetching ==
    /\ tpc = "re_platform"
    /\ ein.platform = "web"
    /\ events' = Append(events, JobEvent("fetching", 20))
    /\ update_progress("fetching", 20)
    /\ tpc' = "re_website"
    /\ UNCHANGED <<cpc, cancelAt, dbRecipes, dbRecipe, dbVersions, pending, jres, trace>>
    /\ JobFrame

\* website_service.extract returns (lines 892-896)
re_website_extract ==
    /\ tpc = "re_website"
    /\ jres' \in WebsiteResults
    /\ tpc' = "re_get_job"
    /\ UNCHANGED <<cpc, cancelAt, dbJob, sessJob, dbRecipes, dbRecipe, dbVersions, pending>>
    /\ UNCHANGED <<events, trace>>
    /\ JobFrame

\* recipe_extractor.extract is awaited with update_progress as the sink
\* (lines 897-904)
re_call_extract ==
    /\ tpc = "re_platform"
    /\ ein.platform # "web"
    /\ ex' = [ExtractLocals EXCEPT !.pc = "start"]
    /\ tpc' = "re_extract"
    /\ UNCHANGED <<cpc, cancelAt, dbJob, sessJob, dbRecipes, dbRecipe, dbVersions, pending, jres>>
    /\ UNCHANGED <<ein, fs, events, trace, result, llmVars, webVars, startVars, fnVars>>

re_extract_returned ==
    /\ tpc = "re_extract"
    /\ ex.pc = "done"
    /\ jres' = result
    /\ tpc' = "re_get_job"
    /\ UNCHANGED <<cpc, cancelAt, dbJob, sessJob, dbRecipes, dbRecipe, dbVersions, pending>>
    /\ UNCHANGED <<events, trace>>
    /\ JobFrame

\* "Get job record"; with a successful result the version snapshot of the
\* old state is added to the session, then result.low_confidence is read;
\* with a failed one result.friendly_error is (lines 906-958, 1015-1022).
re_get_job ==
    /\ tpc = "re_get_job"
    /\ sessJob' = session_select(FALSE)
    /\ pending' = IF jres.success THEN {"version"} ELSE pending
    /\ tpc' = IF jres.type = "WebsiteExtractionResult" THEN "handler"
              ELSE IF ~jres.success THEN "fail_commit"
              ELSE IF jres.thumbnail_url # "" THEN "re_thumbnail"
              ELSE "re_commit"
    /\ UNCHANGED <<cpc, cancelAt, dbJob, dbRecipes, dbRecipe, dbVersions, jres>>
    /\ UNCHANGED <<events, trace>>
    /\ JobFrame

\* the "saving" event (lines 959-964); the commit inside update_progress
\* flushes the pending version snapshot
re_report_saving ==
    /\ tpc = "re_thumbnail"
    /\ events' = Append(events, JobEvent("saving", 85))
    /\ update_progress("saving", 85)
    /\ dbVersions' = dbVersions + new_version_rows
    /\ pending' = {}
    /\ tpc' = "re_upload"
    /\ UNCHANGED <<cpc, cancelAt, dbRecipes, dbRecipe, jres, trace>>
    /\ JobFrame

\* upload_thumbnail_from_url returns an S3 URL or None (lines 965-974)
re_upload_thumbnail ==
    /\ tpc = "re_upload"
    /\ \E s3_url \in {"s3", ""} :
         pending' = IF s3_url # "" THEN pending \cup {"thumbnail"} ELSE pending
    /\ trace' = trace \cup {"upload_thumbnail"}
    /\ tpc' = "re_commit"
    /\ UNCHANGED <<cpc, cancelAt, dbJob, sessJob, dbRecipes, dbRecipe, dbVersions, jres>>
    /\ UNCHANGED events
    /\ JobFrame

\* "SINGLE COMMIT for recipe + version together" (lines 976-991)
re_commit_recipe ==
    /\ tpc = "re_commit"
    /\ dbRecipe' = [dbRecipe EXCEPT !.extracted = "new",
                                    !.thumbnail_url = IF "thumbnail" \in pending
                                                      THEN "s3" ELSE @]
    /\ dbVersions' = dbVersions + new_version_rows
    /\ pending' = {}
    /\ tpc' = "re_complete"
    /\ UNCHANGED <<cpc, cancelAt, dbJob, sessJob, dbRecipes, jres>>
    /\ UNCHANGED <<events, trace>>
    /\ JobFrame

\* the "complete" event (lines 994-1005)
re_report_complete ==
    /\ tpc = "re_complete"
    /\ events' = Append(events, JobEvent("complete", 100))
    /\ update_progress("complete", 100)
    /\ tpc' = "finish"
    /\ UNCHANGED <<cpc, cancelAt, dbRecipes, dbRecipe, dbVersions, pending, jres, trace>>
    /\ JobFrame

\* cancel_job, in its own session: the job is read and must be processing
\* or pending (lines 694-707)
cancel_read ==
    /\ cpc = "idle"
    /\ tpc # "idle"
    /\ cpc' = IF dbJob.status \in {"processing", "pending"} THEN "commit" ELSE "rejected"
    /\ UNCHANGED <<tpc, cancelAt, dbJob, sessJob, dbRecipes, dbRecipe, dbVersions, pending, jres>>
    /\ UNCHANGED <<events, trace>>
    /\ JobFrame

\* ... and marked cancelled (lines 709-714)
cancel_commit ==
    /\ cpc = "commit"
    /\ dbJob' = [dbJob EXCEPT !.status = "cancelled", !.current_step = "cancelled"]
    /\ cancelAt' = tpc
    /\ cpc' = "done"
    /\ UNCHANGED <<tpc, sessJob, dbRecipes, dbRecipe, dbVersions, pending, jres>>
    /\ UNCHANGED <<events, trace>>
    /\ JobFrame

-----------------------------------------------------------------------------
(* Initial states and specifications                                       *)

JobRow == [status |-> "processing", progress |-> 0, current_step |-> "initializing",
           recipe_id |-> "none"]

RecipeRow == [extracted |-> "old", thumbnail_url |-> "old", original_extracted |-> "none"]

JobIdle ==
    /\ tpc = "idle" /\ cpc = "idle" /\ cancelAt = "never"
    /\ dbJob = JobRow /\ sessJob = <<>>
    /\ dbRecipes = 0 /\ dbRecipe = RecipeRow /\ dbVersions = 0 /\ pending = {}
    /\ jres = NoExtractResult

\* The URL shapes extract distinguishes, with the other arguments
ExtractArgs(callbacks, fast_modes) ==
    {a \in [platform : {"youtube", "tiktok", "instagram", "web"},
            short_link : BOOLEAN, photo_url : BOOLEAN, notes : BOOLEAN,
            progress_callback : callbacks, fast_mode : fast_modes] :
        /\ (a.short_link \/ a.photo_url) => a.platform = "tiktok"
        /\ ~(a.short_link /\ a.photo_url)}

ExtractIdle ==
    /\ ein = [platform |-> "web", short_link |-> FALSE, photo_url |-> FALSE,
              notes |-> FALSE, progress_callback |-> "none", fast_mode |-> FALSE]
    /\ ex = ExtractLocals
    /\ fs = [file |-> FALSE, dir |-> FALSE]
    /\ events = <<>>
    /\ trace = {}
    /\ result = NoExtractResult

WebsiteIdle ==
    /\ wpc = "idle"
    /\ page = [fetch_error |-> "none"]
    /\ wres = [success |-> FALSE]

NoCall ==
    /\ call = [fn |-> "none"]
    /\ ret = <<>>

NoStart ==
    /\ jobs = {}
    /\ recipes = 0
    /\ requests = <<>>
    /\ tasks = <<>>

EngineIdle ==
    /\ lpc = "idle" /\ lmode = "text"
    /\ attempt = 0 /\ last_error = "none" /\ lresult = NoResult
    /\ calls = [p \in Providers |-> 0]

\* A fresh invocation of one entry point, for every key configuration and
\* every behaviour of the two providers.
InitLLM ==
    /\ lpc = "start"
    /\ lmode \in SourceModes
    /\ keys \in [Providers -> BOOLEAN]
    /\ behaviour \in [Providers -> {"fail", "ok", "any"}]
    /\ attempt = 0
    /\ calls = [p \in Providers |-> 0]
    /\ last_error = "none"
    /\ lresult = NoResult
    /\ ExtractIdle
    /\ JobIdle
    /\ WebsiteIdle /\ NoCall /\ NoStart

NextLLM ==
    \/ engine_try_primary
    \/ engine_skip_primary
    \/ engine_fallback
    \/ engine_no_fallback
    \/ engine_both_failed
    \/ \E p \in Providers : try_extraction(p)
    \/ \E p \in Providers : try_vision_extraction(p)
    \/ \E p \in Providers : try_multi_image_extraction(p)
    \/ \E p \in Providers : retry_exhausted(p)
    \/ \E p \in Providers : call_simple_llm(p)

SpecLLM == InitLLM /\ [][NextLLM]_vars

\* One call of extract, for every URL shape and argument, with a
\* caller-supplied progress sink or none; the secondary provider is
\* configured, the primary may be, and each call of a provider succeeds or
\* fails.
InitExtract ==
    /\ ein \in ExtractArgs({"none", "sink"}, BOOLEAN)
    /\ ex = [ExtractLocals EXCEPT !.pc = "start"]
    /\ fs = [file |-> FALSE, dir |-> FALSE]
    /\ events = <<>>
    /\ trace = {}
    /\ result = NoExtractResult
    /\ lpc = "idle"
    /\ lmode = "text"
    /\ keys \in {k \in [Providers -> BOOLEAN] : k["secondary"]}
    /\ behaviour = [p \in Providers |-> "flaky"]
    /\ attempt = 0
    /\ calls = [p \in Providers |-> 0]
    /\ last_error = "none"
    /\ lresult = NoResult
    /\ JobIdle
    /\ WebsiteIdle /\ NoCall /\ NoStart

\* The engine as extract uses it (openai_api_key is a required setting)
EngineSteps ==
    \/ engine_try_primary
    \/ engine_skip_primary
    \/ engine_fallback
    \/ engine_both_failed
    \/ \E p \in Providers : try_extraction(p)
    \/ \E p \in Providers : try_slideshow_extraction(p)
    \/ \E p \in Providers : retry_exhausted(p)

NextExtract ==
    \/ ExtractSteps
    \/ report_metadata_fast
    \/ skip_audio
    \/ EngineSteps

SpecExtract == InitExtract /\ [][NextExtract]_vars

\* One run of run_extraction_job for a job row that start_extraction_job
\* created (a YouTube video, a TikTok slideshow or a web page, no notes),
\* with a cancel_job request arriving at any moment or never.
InitJob ==
    /\ ein \in {a \in ExtractArgs({"update_progress"}, {FALSE}) :
                  /\ a.platform \in {"youtube", "web"} \/ a.photo_url
                  /\ ~a.notes}
    /\ ex = ExtractLocals
    /\ fs = [file |-> FALSE, dir |-> FALSE]
    /\ events = <<>>
    /\ trace = {}
    /\ result = NoExtractResult
    /\ lpc = "idle"
    /\ lmode = "text"
    /\ keys \in {k \in [Providers -> BOOLEAN] : k["secondary"]}
    /\ behaviour = [p \in Providers |-> "flaky"]
    /\ attempt = 0
    /\ calls = [p \in Providers |-> 0]
    /\ last_error = "none"
    /\ lresult = NoResult
    /\ tpc = "start" /\ cpc = "idle" /\ cancelAt = "never"
    /\ dbJob = JobRow /\ sessJob = <<>>
    /\ dbRecipes = 0 /\ dbRecipe = RecipeRow /\ dbVersions = 0 /\ pending = {}
    /\ jres = NoExtractResult
    /\ WebsiteIdle /\ NoCall /\ NoStart

NextJob ==
    \/ job_report_fetching
    \/ job_website_extract
    \/ job_call_extract
    \/ job_extract_returned
    \/ job_get_job
    \/ job_fresh_check
    \/ job_save_recipe
    \/ job_post_check
    \/ job_delete_recipe
    \/ job_report_saving
    \/ job_upload_thumbnail
    \/ job_report_complete
    \/ job_finish
    \/ job_fail_commit
    \/ job_handler_select
    \/ job_handler_commit
    \/ cancel_read
    \/ cancel_commit
    \/ ExtractSteps
    \/ EngineSteps

SpecJob == InitJob /\ [][NextJob]_vars

\* One run of run_re_extraction_job for an existing recipe, with a
\* cancel_job request arriving at any moment or never.
InitReJob ==
    /\ ein \in {a \in ExtractArgs({"update_progress"}, {FALSE}) :
                  /\ a.platform \in {"youtube", "web"} \/ a.photo_url
                  /\ ~a.notes}
    /\ ex = ExtractLocals
    /\ fs = [file |-> FALSE, dir |-> FALSE]
    /\ events = <<>>
    /\ trace = {}
    /\ result = NoExtractResult
    /\ lpc = "idle"
    /\ lmode = "text"
    /\ keys \in {k \in [Providers -> BOOLEAN] : k["secondary"]}
    /\ behaviour = [p \in Providers |-> "flaky"]
    /\ attempt = 0
    /\ calls = [p \in Providers |-> 0]
    /\ last_error = "none"
    /\ lresult = NoResult
    /\ tpc = "re_start" /\ cpc = "idle" /\ cancelAt = "never"
    /\ dbJob = JobRow /\ sessJob = <<>>
    /\ dbRecipes = 1 /\ dbRecipe = RecipeRow /\ dbVersions = 0 /\ pending = {}
    /\ jres = NoExtractResult
    /\ WebsiteIdle /\ NoCall /\ NoStart

NextReJob ==
    \/ re_preserve_original
    \/ re_report_fetching
    \/ re_website_extract
    \/ re_call_extract
    \/ re_extract_returned
    \/ re_get_job
    \/ re_report_saving
    \/ re_upload_thumbnail
    \/ re_commit_recipe
    \/ re_report_complete
    \/ job_finish
    \/ job_fail_commit
    \/ job_handler_select
    \/ job_handler_commit
    \/ cancel_read
    \/ cancel_commit
    \/ ExtractSteps
    \/ EngineSteps

SpecReJob == InitReJob /\ [][NextReJob]_vars

(***************************************************************************)
(* Recipe normalisation: app/services/llm_client.py (_post_process_recipe) *)
(* and app/services/website.py (_convert_jsonld_to_recipe,                 *)
(* _parse_ingredient_string, _ai_extract_recipe).                          *)
(*                                                                         *)
(* A draft is the JSON object a provider returned.  An ingredient is kept  *)
(* by its name only; "None" stands for JSON null.  An absent key and an    *)
(* empty list are told apart where the code tells them apart.              *)
(***************************************************************************)
MaxComponents == 2

IngredientNames == {"None", "", "flour"}

IngredientLists ==
    {<<>>} \cup {<<[name |-> n]>> : n \in IngredientNames}
           \cup {<<[name |-> "flour"], [name |-> ""]>>}

StepLists == {<<>>, <<"mix">>}

Components == [ingredients : IngredientLists, steps : StepLists]

ComponentLists ==
    UNION {[1..n -> Components] : n \in 0..MaxComponents}

\* "absent": the key is missing; "None": JSON null; "dict": an object with
\* the listed keys.
NutritionDrafts ==
    {[kind |-> "absent", keys |-> {}], [kind |-> "None", keys |-> {}]}
        \cup {[kind |-> "dict", keys |-> k] : k \in SUBSET {"perServing", "total"}}

\* "" stands for a missing or empty title.
Titles == {"", "Recipe ", "Pancakes"}

Drafts ==
    [title : Titles,
     components : {[present |-> FALSE, items |-> <<>>]}
                     \cup {[present |-> TRUE, items |-> c] : c \in ComponentLists},
     ingredients : IngredientLists,
     steps : StepLists,
     nutrition : NutritionDrafts]

RECURSIVE all_ingredients(_)
all_ingredients(components) ==
    IF components = <<>> THEN <<>>
    ELSE Head(components).ingredients \o all_ingredients(Tail(components))

\* A component of the drafts carries no name, so the prefix is 'Step'.
prefixed(step) == IF step = "mix" THEN "Step: mix" ELSE step

RECURSIVE all_steps(_, _)
all_steps(components, many) ==
    IF components = <<>> THEN <<>>
    ELSE LET steps == Head(components).steps
         IN  (IF many THEN [i \in DOMAIN steps |-> prefixed(steps[i])] ELSE steps)
                 \o all_steps(Tail(components), many)

NoRecipe ==
    [title |-> "", components |-> <<>>, ingredients |-> <<>>, steps |-> <<>>,
     nutrition |-> [kind |-> "absent", keys |-> {}], media |-> "absent"]

\* The result of a normaliser: it raised, it returned None, or it returned
\* a recipe.
Normalised(recipe) == [raised |-> FALSE, none |-> FALSE, recipe |-> recipe]

NormaliserRaised == [raised |-> TRUE, none |-> FALSE, recipe |-> NoRecipe]

NormaliserNone == [raised |-> FALSE, none |-> TRUE, recipe |-> NoRecipe]

\* _post_process_recipe: the component list is replaced when missing or
\* empty, the flat lists are rebuilt from the components, and nutrition is
\* filled in only when the key is missing; "section in nutrition" raises
\* TypeError on null.
post_process_recipe(recipe) ==
    LET components ==
            IF ~recipe.components.present \/ recipe.components.items = <<>>
            THEN <<[ingredients |-> recipe.ingredients, steps |-> recipe.steps]>>
            ELSE recipe.components.items
        nutrition ==
            IF recipe.nutrition.kind = "absent"
            THEN [kind |-> "dict", keys |-> {"perServing", "total"}]
            ELSE recipe.nutrition
    IN  IF nutrition.kind = "None" THEN NormaliserRaised
        ELSE Normalised([title |-> recipe.title,
                         components |-> components,
                         ingredients |-> all_ingredients(components),
                         steps |-> all_steps(components, Len(components) > 1),
                         nutrition |-> nutrition,
                         media |-> "thumbnail: None"])

RECURSIVE total_steps(_)
total_steps(components) ==
    IF components = <<>> THEN 0
    ELSE Len(Head(components).steps) + total_steps(Tail(components))

\* _ai_extract_recipe from the point where generate_json has returned a
\* draft: None for no title, a placeholder title, or neither an ingredient
\* nor a step; otherwise the draft with one component at least, the flat
\* lists rebuilt and nutrition rewritten with both keys.
ai_extract_recipe(draft) ==
    LET components == draft.components.items
        total_ingredients ==
            Len(all_ingredients(components)) + Len(draft.ingredients)
        n_steps == total_steps(components) + Len(draft.steps)
        lower_strip(title) ==
            CASE title = "Recipe " -> "recipe"
              [] title = "Pancakes" -> "pancakes"
              [] OTHER -> title
        placeholder_titles ==
            {"recipe title", "untitled", "recipe", "title", "no title", "unknown"}
        made ==
            IF components = <<>>
            THEN <<[ingredients |-> draft.ingredients, steps |-> draft.steps]>>
            ELSE components
    IN  IF draft.title = "" THEN NormaliserNone
        ELSE IF lower_strip(draft.title) \in placeholder_titles THEN NormaliserNone
        ELSE IF total_ingredients = 0 /\ n_steps = 0 THEN NormaliserNone
        ELSE Normalised([title |-> draft.title,
                         components |-> made,
                         ingredients |-> all_ingredients(made),
                         steps |-> all_steps(made, FALSE),
                         nutrition |-> [kind |-> "dict",
                                        keys |-> {"perServing", "total"}],
                         media |-> "sourceUrl"])

\* Ingredient lines as a page carries them.
IngredientTexts == {"", "[]", "2", "2 cups flour"}

\* _parse_ingredient_string: the text is stripped, the checkbox glyph is
\* removed, a leading quantity and unit are split off, and the name is what
\* remains, or the cleaned text itself when nothing remains.
parse_ingredient_string(ing_str) ==
    LET cleaned == IF ing_str = "[]" THEN "" ELSE ing_str
        name_clean ==
            CASE cleaned = "2 cups flour" -> "flour"
              [] cleaned = "2" -> ""
              [] OTHER -> cleaned
    IN  [name |-> IF name_clean # "" THEN name_clean ELSE cleaned]

IngredientTextLists ==
    {<<>>} \cup {<<t>> : t \in IngredientTexts}
           \cup {<<"2 cups flour", t>> : t \in IngredientTexts}

\* _extract_ingredient_groups_from_html keeps only non-empty lines and only
\* groups with a line.
IngredientGroups ==
    {<<>>} \cup {<<[ingredients |-> <<t>>]>> : t \in IngredientTexts \ {""}}
           \cup {<<[ingredients |-> <<"2 cups flour">>], [ingredients |-> <<t>>]>> :
                    t \in IngredientTexts \ {""}}

\* The JSON-LD Recipe object of a page: "text" is a nutrition value that is
\* not an object.
JsonLdRecipes ==
    [recipeIngredient : IngredientTextLists,
     recipeInstructions : StepLists,
     nutrition : {"absent", "empty", "calories", "text"}]

\* _convert_jsonld_to_recipe
convert_jsonld_to_recipe(jsonld, ingredient_groups) ==
    LET ingredients ==
            [i \in DOMAIN jsonld.recipeIngredient |->
                parse_ingredient_string(jsonld.recipeIngredient[i])]
        steps == jsonld.recipeInstructions
        group(g) ==
            [ingredients |-> [i \in DOMAIN g.ingredients |->
                                 parse_ingredient_string(g.ingredients[i])],
             steps |-> <<>>]
        components ==
            IF Len(ingredient_groups) > 1
            THEN [i \in DOMAIN ingredient_groups |->
                     IF i = 1
                     THEN [group(ingredient_groups[i]) EXCEPT !.steps = steps]
                     ELSE group(ingredient_groups[i])]
            ELSE <<[ingredients |-> ingredients, steps |-> steps]>>
    IN  IF jsonld.nutrition = "text" THEN NormaliserRaised
        ELSE Normalised([title |-> "Pancakes",
                         components |-> components,
                         ingredients |-> ingredients,
                         steps |-> steps,
                         nutrition |-> [kind |-> "dict",
                                        keys |-> {"perServing", "total"}],
                         media |-> "sourceUrl"])

\* _call_llm from the parsed draft on: an exception of the post-processing
\* is caught by the retry loop and counts as a failed attempt.
call_llm ==
    /\ call.fn = "_call_llm"
    /\ ret = <<>>
    /\ ret' = <<post_process_recipe(call.draft)>>
    /\ UNCHANGED <<call, webVars, startVars, llmVars, exVars, jobVars>>

\* RecipeExtractor.extract after a successful extract_recipe: the thumbnail
\* is attached and the recipe goes into the result as it is.
extract_attach_thumbnail ==
    /\ call.fn = "_call_llm"
    /\ Len(ret) = 1
    /\ ~ret[1].raised
    /\ ret' = Append(ret, [ret[1] EXCEPT !.recipe.media = "thumbnail: url"])
    /\ UNCHANGED <<call, webVars, startVars, llmVars, exVars, jobVars>>

call_ai_extract_recipe ==
    /\ call.fn = "_ai_extract_recipe"
    /\ ret = <<>>
    /\ ret' = <<ai_extract_recipe(call.draft)>>
    /\ UNCHANGED <<call, webVars, startVars, llmVars, exVars, jobVars>>

call_convert_jsonld_to_recipe ==
    /\ call.fn = "_convert_jsonld_to_recipe"
    /\ ret = <<>>
    /\ ret' = <<convert_jsonld_to_recipe(call.jsonld, call.ingredient_groups)>>
    /\ UNCHANGED <<call, webVars, startVars, llmVars, exVars, jobVars>>

InitNormalise ==
    /\ call \in {[fn |-> f, draft |-> d] :
                    f \in {"_call_llm", "_ai_extract_recipe"}, d \in Drafts}
          \cup {[fn |-> "_convert_jsonld_to_recipe", jsonld |-> j,
                 ingredient_groups |-> g] :
                    j \in JsonLdRecipes, g \in IngredientGroups}
    /\ ret = <<>>
    /\ keys = [p \in Providers |-> TRUE]
    /\ behaviour = [p \in Providers |-> "ok"]
    /\ WebsiteIdle /\ JobIdle /\ ExtractIdle /\ EngineIdle /\ NoStart

NextNormalise ==
    \/ call_llm
    \/ extract_attach_thumbnail
    \/ call_ai_extract_recipe
    \/ call_convert_jsonld_to_recipe

SpecNormalise == InitNormalise /\ [][NextNormalise]_vars


(***************************************************************************)
(* Confidence evaluator: app/services/extractor.py                         *)
(*                                                                         *)
(* The raw text is kept by what the evaluator measures of it: the number   *)
(* of whitespace-separated words, the number of music glyphs, the recipe   *)
(* keywords and the length of the part after "SPOKEN CONTENT", and whether *)
(* the metadata part has three recipe keywords and two quantity keywords.  *)
(***************************************************************************)
RawTexts ==
    {t \in [word_count : {0, 1, 49, 50, 51},
            music_indicators : {0, 3},
            recipe_word_count_spoken : {0, 2, 3},
            spoken_content_long : BOOLEAN,
            metadata_has_rich_recipe_info : BOOLEAN] :
        t.word_count = 0 =>
            /\ t.music_indicators = 0 /\ t.recipe_word_count_spoken = 0
            /\ ~t.spoken_content_long /\ ~t.metadata_has_rich_recipe_info}

\* A recipe by what the evaluator counts in it; present = FALSE is None.
CountedRecipes ==
    {r \in [present : BOOLEAN, total_ingredients : 0..4, vague_ingredients : 0..4,
            total_steps : {0, 1}, title : Titles \cup {"Dish"}] :
        /\ r.vague_ingredients <= r.total_ingredients
        /\ ~r.present => (r.total_ingredients = 0 /\ r.total_steps = 0 /\ r.title = "")}

call_check_extraction_confidence ==
    /\ call.fn = "_check_extraction_confidence"
    /\ ret = <<>>
    /\ ret' = <<check_extraction_confidence(call.recipe, call.raw_text,
                    call.extraction_quality, call.has_audio_transcript)>>
    /\ UNCHANGED <<call, webVars, startVars, llmVars, exVars, jobVars>>

InitConfidence ==
    /\ call \in [fn : {"_check_extraction_confidence"},
                 recipe : CountedRecipes,
                 raw_text : RawTexts,
                 extraction_quality : {"high", "good", "low"},
                 has_audio_transcript : BOOLEAN]
    /\ ret = <<>>
    /\ keys = [p \in Providers |-> TRUE]
    /\ behaviour = [p \in Providers |-> "ok"]
    /\ WebsiteIdle /\ JobIdle /\ ExtractIdle /\ EngineIdle /\ NoStart

NextConfidence == call_check_extraction_confidence

SpecConfidence == InitConfidence /\ [][NextConfidence]_vars


(***************************************************************************)
(* URL normaliser: app/services/video.py                                   *)
(*                                                                         *)
(* A URL is its shape (the text up to the identifier), the identifier, and *)
(* whether further parameters follow ("&t=10" after a watch link, "?x=1"   *)
(* after the others).  The network is a fixed answer per short-link code:  *)
(* the request fails, is answered without a redirect, or ends at a TikTok  *)
(* URL.                                                                    *)
(***************************************************************************)
YouTubeIdShapes ==
    {"https://www.youtube.com/watch?v=", "https://youtu.be/",
     "https://www.youtube.com/embed/", "https://www.youtube.com/shorts/"}

YouTubeShapes == YouTubeIdShapes \cup {"https://www.youtube.com/channel/"}

TikTokShortShapes == {"https://www.tiktok.com/t/", "https://vm.tiktok.com/"}

TikTokFullShapes ==
    {"https://www.tiktok.com/@user/video/", "https://www.tiktok.com/@user/photo/"}

UrlShapes ==
    YouTubeShapes \cup TikTokShortShapes \cup TikTokFullShapes
        \cup {"https://www.instagram.com/reel/", "https://example.com/"}

UrlIds == {"a1", "b2"}

Urls == [shape : UrlShapes, id : UrlIds, params : BOOLEAN]

\* What a HEAD request that follows redirects ends with.
HeadOutcomes ==
    {[kind |-> "error", url |-> u] : u \in {[shape |-> "https://example.com/",
                                             id |-> "a1", params |-> FALSE]}}
        \cup {[kind |-> "self", url |-> u] : u \in {[shape |-> "https://example.com/",
                                                    id |-> "a1", params |-> FALSE]}}
        \cup {[kind |-> "redirect", url |-> u] :
                 u \in [shape : TikTokFullShapes, id : UrlIds, params : BOOLEAN]}

detect_platform(url) ==
    IF url.shape \in YouTubeShapes THEN "youtube"
    ELSE IF url.shape \in TikTokShortShapes \cup TikTokFullShapes THEN "tiktok"
    ELSE IF url.shape = "https://www.instagram.com/reel/" THEN "instagram"
    ELSE "web"

\* extract_youtube_id: the identifier ends before '&', '?' and '#'; "" is None.
extract_youtube_id(url) ==
    IF url.shape \in YouTubeIdShapes THEN url.id ELSE ""

\* url.split('?')[0]
strip_query(url) == [url EXCEPT !.params = FALSE]

\* extract_tiktok_video_id: the digits after '/video/'; "" is None.
extract_tiktok_video_id(url) ==
    IF url.shape = "https://www.tiktok.com/@user/video/" THEN url.id ELSE ""

head_resolved_with_query(url, head) ==
    LET response == head[url.id]
    IN  CASE response.kind = "error" -> url
          [] response.kind = "self" -> strip_query(url)
          [] OTHER -> response.url

\* The try block of normalize_url: the final URL of the request without its
\* query string, the URL as given when the request raises.
head_resolved(url, head) ==
    LET response == head[url.id]
    IN  CASE response.kind = "error" -> url
          [] response.kind = "self" -> strip_query(url)
          [] OTHER -> strip_query(response.url)

normalize_url(url, head) ==
    LET platform == detect_platform(url)
    IN  IF platform = "tiktok"
        THEN IF url.shape \in TikTokShortShapes
             THEN head_resolved(url, head)
             ELSE strip_query(url)
        ELSE IF platform = "youtube" /\ extract_youtube_id(url) # ""
        THEN [shape |-> "https://www.youtube.com/watch?v=",
              id |-> extract_youtube_id(url), params |-> FALSE]
        ELSE url

call_normalize_url ==
    /\ call.fn = "normalize_url"
    /\ ret = <<>>
    /\ ret' = <<normalize_url(call.url, call.head)>>
    /\ UNCHANGED <<call, webVars, startVars, llmVars, exVars, jobVars>>

\* The result is normalised a second time, as check_duplicate and the job
\* runner do with URLs stored in normalised form.
call_normalize_url_again ==
    /\ call.fn = "normalize_url"
    /\ Len(ret) = 1
    /\ ret' = Append(ret, normalize_url(ret[1], call.head))
    /\ UNCHANGED <<call, webVars, startVars, llmVars, exVars, jobVars>>

InitNormalizeUrl ==
    /\ call \in [fn : {"normalize_url"}, url : Urls, head : [UrlIds -> HeadOutcomes]]
    /\ ret = <<>>
    /\ keys = [p \in Providers |-> TRUE]
    /\ behaviour = [p \in Providers |-> "ok"]
    /\ WebsiteIdle /\ JobIdle /\ ExtractIdle /\ EngineIdle /\ NoStart

NextNormalizeUrl ==
    \/ call_normalize_url
    \/ call_normalize_url_again

SpecNormalizeUrl == InitNormalizeUrl /\ [][NextNormalizeUrl]_vars


(***************************************************************************)
(* Website extractor: app/services/website.py (WebsiteService.extract)     *)
(*                                                                         *)
(* A page is what the fetch returned, the JSON-LD Recipe object found in   *)
(* it (if any), the ingredient groups of its HTML, and the length class of *)
(* its main text.                                                          *)
(***************************************************************************)
Pages ==
    {p \in [fetch_error : {"none", "blocked"},
            jsonld : [present : BOOLEAN, recipe : JsonLdRecipes],
            ingredient_groups : IngredientGroups,
            main_content : {"None", "short", "long"}] :
        /\ ~p.jsonld.present =>
              p.jsonld.recipe = [recipeIngredient |-> <<>>,
                                 recipeInstructions |-> <<>>,
                                 nutrition |-> "absent"]
        /\ p.fetch_error # "none" =>
              /\ ~p.jsonld.present
              /\ p.ingredient_groups = <<>>
              /\ p.main_content = "None"}

\* The drafts generate_json hands to _ai_extract_recipe
WebsiteDrafts ==
    [title : Titles,
     components : {[present |-> FALSE, items |-> <<>>]}
                     \cup {[present |-> TRUE, items |-> <<c>>] : c \in Components},
     ingredients : {<<>>, <<[name |-> "flour"]>>, <<[name |-> ""]>>},
     steps : StepLists,
     nutrition : {[kind |-> "absent", keys |-> {}]}]

WebsiteFailure(error_type) ==
    [success |-> FALSE, error_type |-> error_type, recipe |-> NoRecipe,
     thumbnail_url |-> "None", extraction_method |-> "None",
     extraction_quality |-> "None"]

WebsiteSuccess(recipe, thumbnail, method, quality) ==
    [success |-> TRUE, error_type |-> "None", recipe |-> recipe,
     thumbnail_url |-> thumbnail, extraction_method |-> method,
     extraction_quality |-> quality]

\* "html, fetch_error = await cls._fetch_html_with_error(url)"
website_fetch ==
    /\ wpc = "start"
    /\ IF page.fetch_error # "none"
       THEN /\ wres' = WebsiteFailure(page.fetch_error)
            /\ wpc' = "done"
       ELSE /\ wpc' = "jsonld"
            /\ UNCHANGED wres
    /\ UNCHANGED <<page, fnVars, startVars, llmVars, exVars, jobVars>>

website_jsonld_any_recipe ==
    /\ wpc = "jsonld"
    /\ IF ~page.jsonld.present
       THEN /\ wpc' = "content"
            /\ UNCHANGED wres
       ELSE LET converted ==
                    convert_jsonld_to_recipe(page.jsonld.recipe, page.ingredient_groups)
            IN  IF converted.raised
                THEN /\ wres' = WebsiteFailure("parse_error")
                     /\ wpc' = "done"
                ELSE /\ wres' = WebsiteSuccess(converted.recipe, "jsonld",
                                               "website-jsonld", "high")
                     /\ wpc' = "done"
    /\ UNCHANGED <<page, fnVars, startVars, llmVars, exVars, jobVars>>

\* The JSON-LD branch: the converted recipe is returned when it has an
\* ingredient and a step in its flat lists; a conversion that raises ends in
\* the handler of the whole body.
website_jsonld ==
    /\ wpc = "jsonld"
    /\ IF ~page.jsonld.present
       THEN /\ wpc' = "content"
            /\ UNCHANGED wres
       ELSE LET converted ==
                    convert_jsonld_to_recipe(page.jsonld.recipe, page.ingredient_groups)
                has_ingredients == Len(converted.recipe.ingredients) > 0
                has_steps == Len(converted.recipe.steps) > 0
            IN  IF converted.raised
                THEN /\ wres' = WebsiteFailure("parse_error")
                     /\ wpc' = "done"
                ELSE IF has_ingredients /\ has_steps
                THEN /\ wres' = WebsiteSuccess(converted.recipe, "jsonld",
                                               "website-jsonld", "high")
                     /\ wpc' = "done"
                ELSE /\ wpc' = "content"
                     /\ UNCHANGED wres
    /\ UNCHANGED <<page, fnVars, startVars, llmVars, exVars, jobVars>>

\* "if not main_content or len(main_content) < 100", else _ai_extract_recipe
\* calls generate_json
website_main_content ==
    /\ wpc = "content"
    /\ IF page.main_content # "long"
       THEN /\ wres' = WebsiteFailure("no_content")
            /\ wpc' = "done"
            /\ UNCHANGED llmVars
       ELSE /\ wpc' = "ai_wait"
            /\ lpc' = "start"
            /\ lmode' = "json"
            /\ attempt' = 0
            /\ calls' = [p \in Providers |-> 0]
            /\ last_error' = "none"
            /\ lresult' = NoResult
            /\ UNCHANGED <<wres, keys, behaviour>>
    /\ UNCHANGED <<page, fnVars, startVars, exVars, jobVars>>

\* generate_json returned: None, or the draft a provider wrote, which
\* _ai_extract_recipe rejects or normalises.
website_ai_returned ==
    /\ wpc = "ai_wait"
    /\ lpc = "done"
    /\ \E recipe \in IF lresult.success
                     THEN {ai_extract_recipe(d) : d \in WebsiteDrafts}
                     ELSE {NormaliserNone} :
          wres' = IF recipe.none
                  THEN WebsiteFailure("ai_failed")
                  ELSE WebsiteSuccess(recipe.recipe,
                                      IF page.jsonld.present THEN "jsonld" ELSE "html",
                                      "website-ai", "good")
    /\ wpc' = "done"
    /\ lpc' = "idle"
    /\ UNCHANGED <<lmode, keys, behaviour, attempt, calls, last_error, lresult>>
    /\ UNCHANGED <<page, fnVars, startVars, exVars, jobVars>>

InitWebsite ==
    /\ wpc = "start"
    /\ page \in Pages
    /\ wres = WebsiteFailure("None")
    /\ keys \in {k \in [Providers -> BOOLEAN] : k["secondary"]}
    /\ behaviour \in [Providers -> {"fail", "ok"}]
    /\ NoCall /\ JobIdle /\ ExtractIdle /\ EngineIdle /\ NoStart

NextWebsite ==
    \/ website_fetch
    \/ website_jsonld
    \/ website_main_content
    \/ website_ai_returned
    \/ engine_try_primary
    \/ engine_skip_primary
    \/ engine_fallback
    \/ engine_both_failed
    \/ \E p \in Providers : call_simple_llm(p)

SpecWebsite == InitWebsite /\ [][NextWebsite]_vars


-----------------------------------------------------------------------------
(* start_extraction_job, its background tasks and cancel_job, for one URL  *)
(* and one user: app/routers/extract.py                                    *)

MaxRequests == 3

\* The POST /extract/async requests for the URL; the job a request creates
\* carries the request's number as its id (uuid4 in the code).
Requests == 1..MaxRequests

\* "Check for existing recipe FROM THIS USER" (lines 378-395)
start_check_recipe(r) ==
    /\ requests[r].pc = "start"
    /\ requests' = [requests EXCEPT ![r].pc =
                        IF recipes > 0 THEN "returned_existing" ELSE "select_job"]
    /\ UNCHANGED <<jobs, recipes, tasks>>
    /\ UNCHANGED <<llmVars, exVars, jobVars, webVars, fnVars>>

\* "Check for existing extraction job for this URL": a processing job is
\* returned, any other job is to be deleted (lines 397-414)
start_select_job(r) ==
    /\ requests[r].pc = "select_job"
    /\ requests' =
          IF jobs = {} THEN [requests EXCEPT ![r].pc = "create"]
          ELSE LET existing_job == CHOOSE j \in jobs : TRUE
               IN  IF existing_job.status = "processing"
                   THEN [requests EXCEPT ![r].pc = "returned_in_progress"]
                   ELSE [requests EXCEPT ![r].pc = "delete",
                                         ![r].existing_job = existing_job.id]
    /\ UNCHANGED <<jobs, recipes, tasks>>
    /\ UNCHANGED <<llmVars, exVars, jobVars, webVars, fnVars>>

\* db.delete(existing_job); commit (lines 415-418)
start_delete_job(r) ==
    /\ requests[r].pc = "delete"
    /\ jobs' = {j \in jobs : j.id # requests[r].existing_job}
    /\ requests' = [requests EXCEPT ![r].pc = "create"]
    /\ UNCHANGED <<recipes, tasks>>
    /\ UNCHANGED <<llmVars, exVars, jobVars, webVars, fnVars>>

\* The new job row is committed, where the url column is unique
\* (models/recipe.py:166-170), and run_extraction_job is added to the
\* background tasks (lines 420-454)
start_create_job(r) ==
    /\ requests[r].pc = "create"
    /\ IF jobs # {}
       THEN /\ requests' = [requests EXCEPT ![r].pc = "raised"]
            /\ UNCHANGED <<jobs, tasks>>
       ELSE /\ jobs' = {[id |-> r, status |-> "processing"]}
            /\ tasks' = [tasks EXCEPT ![r] = "queued"]
            /\ requests' = [requests EXCEPT ![r].pc = "returned_started"]
    /\ UNCHANGED recipes
    /\ UNCHANGED <<llmVars, exVars, jobVars, webVars, fnVars>>

\* The background task starts once the response has been sent
task_begin(id) ==
    /\ tasks[id] = "queued"
    /\ tasks' = [tasks EXCEPT ![id] = "running"]
    /\ UNCHANGED <<jobs, recipes, requests>>
    /\ UNCHANGED <<llmVars, exVars, jobVars, webVars, fnVars>>

\* run_extraction_job ends (lines 512-650): it returns without a write when
\* its job row is gone or read as cancelled, and otherwise leaves its row
\* completed, with the recipe saved, or failed.
task_end(id) ==
    /\ tasks[id] = "running"
    /\ tasks' = [tasks EXCEPT ![id] = "ended"]
    /\ \/ /\ \A j \in jobs : j.id = id => j.status = "cancelled"
          /\ UNCHANGED <<jobs, recipes>>
       \/ /\ \E j \in jobs : j.id = id
          /\ jobs' = {[j EXCEPT !.status = IF j.id = id THEN "completed" ELSE @] : j \in jobs}
          /\ recipes' = recipes + 1
       \/ /\ \E j \in jobs : j.id = id
          /\ jobs' = {[j EXCEPT !.status = IF j.id = id THEN "failed" ELSE @] : j \in jobs}
          /\ UNCHANGED recipes
    /\ UNCHANGED requests
    /\ UNCHANGED <<llmVars, exVars, jobVars, webVars, fnVars>>

\* DELETE /jobs/{job_id}: a processing or pending job is marked cancelled;
\* the task is not told (lines 682-718)
cancel_job(id) ==
    /\ \E j \in jobs : j.id = id /\ j.status \in {"processing", "pending"}
    /\ jobs' = {[j EXCEPT !.status = IF j.id = id THEN "cancelled" ELSE @] : j \in jobs}
    /\ UNCHANGED <<recipes, requests, tasks>>
    /\ UNCHANGED <<llmVars, exVars, jobVars, webVars, fnVars>>

\* Requests for one URL by one user, arriving at any moment, against an empty
\* extraction_jobs table.
InitStart ==
    /\ jobs = {}
    /\ recipes = 0
    /\ requests = [r \in Requests |-> [pc |-> "start", existing_job |-> 0]]
    /\ tasks = [r \in Requests |-> "none"]
    /\ keys = [p \in Providers |-> TRUE]
    /\ behaviour = [p \in Providers |-> "ok"]
    /\ WebsiteIdle /\ NoCall /\ JobIdle /\ ExtractIdle /\ EngineIdle

NextStart ==
    \/ \E r \in Requests : start_check_recipe(r)
    \/ \E r \in Requests : start_select_job(r)
    \/ \E r \in Requests : start_delete_job(r)
    \/ \E r \in Requests : start_create_job(r)
    \/ \E id \in Requests : task_begin(id)
    \/ \E id \in Requests : task_end(id)
    \/ \E id \in Requests : cancel_job(id)

SpecStart == InitStart /\ [][NextStart]_vars


-----------------------------------------------------------------------------
(* Claims about the extraction engine                                      *)

AlwaysFailsThenSucceeds ==
    /\ lmode = "text"
    /\ keys["primary"] /\ keys["secondary"]
    /\ behaviour["primary"] = "fail" /\ behaviour["secondary"] = "ok"

\* C2: in extract_recipe with both keys configured, a primary that always
\* fails and a secondary that always succeeds, the secondary is never called
\* before the primary has been called 3 times, and the returned result is the
\* secondary's successful result (after exactly one secondary call).
C2_FallbackOrdering ==
    AlwaysFailsThenSucceeds =>
        /\ (calls["secondary"] > 0 => calls["primary"] = 3)
        /\ (lpc = "secondary" => calls["primary"] = 3)
        /\ (lpc = "done" =>
               /\ calls["primary"] = 3
               /\ calls["secondary"] = 1
               /\ lresult = [success |-> TRUE, model_used |-> "secondary", error |-> "none"])

C2_Witness ==
    /\ AlwaysFailsThenSucceeds
    /\ lpc = "done"
    /\ calls["primary"] = 3
    /\ lresult.success /\ lresult.model_used = "secondary"

\* C3: in every mode of the engine (text, single-image OCR, multi-image OCR,
\* JSON generation) a provider that was tried and whose calls keep failing has
\* been called exactly max_retries+1 times when the invocation ends (3 for the
\* primary, 2 for the secondary), and never more than that.
C3_RetryBudgetEveryMode ==
    \A p \in Providers :
        /\ calls[p] <= max_retries(p) + 1
        /\ (lpc = "done" /\ behaviour[p] = "fail" /\ calls[p] > 0)
              => calls[p] = max_retries(p) + 1

\* C3 (amended): in text, single-image and multi-image modes a provider never
\* gets more than max_retries+1 calls per invocation and one that keeps
\* failing gets exactly that many; in JSON generation each provider is called
\* at most once, and exactly once when it was tried and failed.
retry_budget(p) == IF lmode = "json" THEN 1 ELSE max_retries(p) + 1

C3_RetryBudgetPerMode ==
    \A p \in Providers :
        /\ calls[p] <= retry_budget(p)
        /\ (lpc = "done" /\ behaviour[p] = "fail" /\ calls[p] > 0)
              => calls[p] = retry_budget(p)

C3_Witness ==
    /\ lpc = "done"
    /\ lmode = "json"
    /\ behaviour["primary"] = "fail" /\ behaviour["secondary"] = "fail"
    /\ calls["primary"] = 1 /\ calls["secondary"] = 1

-----------------------------------------------------------------------------
(* Claims about RecipeExtractor.extract                                    *)

\* download_audio returned success with a file path in this call
DownloadSucceeded == "download_audio" \in trace /\ ex.audio_file_path

ExtractEnded == ex.pc \in {"done", "raised"}

\* C1: when extract ends (a result or an exception) after download_audio
\* returned a file path, the temporary audio file no longer exists.
C1_AudioFileDeleted ==
    (ExtractEnded /\ DownloadSucceeded) => ~fs.file

\* The six definitively-unavailable codes
DefinitiveCodes ==
    {"VIDEO_UNAVAILABLE", "VIDEO_REMOVED", "VIDEO_PRIVATE",
     "NOT_FOUND", "ACCOUNT_NOT_FOUND", "MEMBERS_ONLY"}

DownloadFailedWith(codes) ==
    /\ "download_audio" \in trace
    /\ ex.audio_error_code \in codes

\* C4: once download_audio has failed with a definitively-unavailable code,
\* neither the metadata-only fallback nor the LLM is ever attempted, and
\* extract ends with the failure result carrying that code and its friendly
\* message.
C4_ShortCircuit ==
    DownloadFailedWith(DefinitiveCodes) =>
        /\ "metadata_only" \notin trace
        /\ "llm" \notin trace
        /\ ExtractEnded =>
              /\ result.kind = "returned" /\ ~result.success
              /\ result.error_code = ex.audio_error_code
              /\ result.friendly_error = "audio_friendly"

\* C4 (amended): when download_audio failed with a definitively-unavailable
\* code and the metadata-only attempt and the notes left the combined
\* content empty, extract returns the failure carrying that code and its
\* friendly message, and the LLM was not called.
C4_UnavailableWithoutContent ==
    (ex.pc = "done" /\ DownloadFailedWith(DefinitiveCodes) /\ ex.combined_content = {}) =>
        /\ result.kind = "returned" /\ ~result.success
        /\ result.error_code = ex.audio_error_code
        /\ result.friendly_error = "audio_friendly"
        /\ "llm" \notin trace

C4_Witness ==
    /\ ex.pc = "done"
    /\ ein.platform = "instagram"
    /\ DownloadFailedWith({"MEMBERS_ONLY"})
    /\ ex.combined_content = {}
    /\ "metadata_only" \in trace
    /\ result.error_code = "MEMBERS_ONLY"

\* The audio could not be used: the download failed with a code outside the
\* definitively-unavailable set, or the transcription failed or was empty
AudioFellBack ==
    \/ /\ "download_audio" \in trace
       /\ ex.audio_error_code # ""
       /\ ex.audio_error_code \notin DefinitiveCodes
    \/ /\ "transcribe_audio" \in trace
       /\ ~ex.has_audio_transcript

TitleOrDescription ==
    \/ ex.metadata.title # ""
    \/ ex.metadata.description # ""
    \/ /\ ex.ytdlp_metadata # <<>>
       /\ ex.ytdlp_metadata[1].title # "" \/ ex.ytdlp_metadata[1].description # ""

\* C5: when extract returns after the audio could not be used, the
\* metadata-only extraction was attempted; with a title or a description
\* available the LLM was called, and a successful result has
\* extraction_method "basic" and has_audio_transcript false.
C5_DegradesToMetadataOnly ==
    (ex.pc = "done" /\ AudioFellBack) =>
        /\ "metadata_only" \in trace
        /\ TitleOrDescription =>
              /\ "llm" \in trace
              /\ result.success =>
                    /\ result.extraction_method = "basic"
                    /\ ~result.has_audio_transcript

C5_Witness ==
    /\ ex.pc = "done"
    /\ "download_audio" \in trace
    /\ ex.audio_error_code = "RATE_LIMITED"
    /\ TitleOrDescription
    /\ "llm" \in trace
    /\ result.success
    /\ result.extraction_method = "basic"

\* C6: no exception ever leaves extract; it always ends with a returned
\* result.
C6_NeverRaises ==
    /\ result.kind # "raised"
    /\ ex.pc # "raised"

\* The 21 codes of the taxonomy
ErrorTaxonomy ==
    {"VIDEO_UNAVAILABLE", "VIDEO_REMOVED", "VIDEO_PRIVATE", "AGE_RESTRICTED",
     "INSTAGRAM_AUTH_REQUIRED", "RATE_LIMITED", "ACCOUNT_NOT_FOUND", "MEMBERS_ONLY",
     "NOT_FOUND", "ACCESS_DENIED", "EXTRACTION_FAILED", "NO_AUDIO", "TIMEOUT",
     "SYSTEM_ERROR", "NO_CONTENT", "LLM_EXTRACTION_FAILED", "NO_IMAGES_FOUND",
     "IMAGE_DOWNLOAD_FAILED", "VISION_EXTRACTION_FAILED", "TIKTOK_PHOTO_ERROR",
     "UNKNOWN_ERROR"}

PlatformGenericCodes == {"INSTAGRAM_ERROR", "TIKTOK_ERROR", "YOUTUBE_ERROR"}

\* The error codes in sight: the one of a failed download_audio and the one
\* of a failed result of extract all lie in the set
SurfacedCodesIn(codes) ==
    /\ ("download_audio" \in trace /\ ex.audio_error_code # "")
          => ex.audio_error_code \in codes
    /\ (result.kind = "returned" /\ ~result.success)
          => result.error_code \in codes

\* C7: every error code of a failed download_audio and of a failed result
\* of extract is one of the 21 codes of the taxonomy.
C7_ClosedTaxonomy == SurfacedCodesIn(ErrorTaxonomy)

\* C7 (amended): every such error code is one of the 21 codes of the
\* taxonomy or one of the three platform-specific generic codes.
C7_TaxonomyOrPlatformGeneric ==
    SurfacedCodesIn(ErrorTaxonomy \cup PlatformGenericCodes)

C7_Witness ==
    /\ ex.pc = "done"
    /\ result.kind = "returned" /\ ~result.success
    /\ result.error_code = "YOUTUBE_ERROR"

-----------------------------------------------------------------------------
(* Claims about the job runners                                            *)

\* Positions of run_extraction_job at which the re-read of the job after
\* the recipe commit has not been performed: the path to it, and the
\* exception handler
RereadNotPerformed ==
    {"start", "website", "extract", "get_job", "fresh_check", "save", "post_check",
     "handler", "handler_commit"}

\* C8: when run_extraction_job ends with a successful extraction result
\* and cancel_job committed "cancelled" before the task's re-read after the
\* recipe commit, no recipe of this job is persisted and the job's status is
\* still "cancelled".
C8_CancelBeforeReread ==
    (tpc = "done" /\ jres.success /\ cancelAt \in RereadNotPerformed) =>
        /\ dbRecipes = 0
        /\ dbJob.status = "cancelled"

\* C8 for the results of RecipeExtractor.extract alone: the same statement
\* with a FullExtractionResult.
C8_VideoResultCancelBeforeReread ==
    (/\ tpc = "done" /\ jres.success /\ jres.type = "FullExtractionResult"
     /\ cancelAt \in RereadNotPerformed) =>
        /\ dbRecipes = 0
        /\ dbJob.status = "cancelled"

\* Positions of run_re_extraction_job before its recipe commit has happened
BeforeReCommit ==
    {"re_start", "re_platform", "re_website", "re_extract", "re_get_job",
     "re_thumbnail", "re_upload", "re_commit"}

\* C9: when run_re_extraction_job ends with a successful extraction result
\* and cancel_job committed "cancelled" before the task's recipe commit, the
\* recipe's extracted data is not overwritten, no version snapshot is added
\* and the job's status is still "cancelled".
C9_ReExtractionCancel ==
    (tpc = "done" /\ jres.success /\ cancelAt \in BeforeReCommit) =>
        /\ dbRecipe.extracted = "old"
        /\ dbVersions = 0
        /\ dbJob.status = "cancelled"

TerminalEvents ==
    {i \in DOMAIN events : events[i].progress = 100 \/ events[i].step = "complete"}

\* C10: no progress event of extract has progress 100 or step "complete";
\* such an event comes from the job runner, and once it exists the recipe is
\* committed and, when the result has a thumbnail, the upload attempt has
\* finished.
C10_TerminalEventByCaller ==
    \A i \in TerminalEvents :
        /\ events[i].by = "job"
        /\ dbRecipes >= 1
        /\ jres.thumbnail_url # "" => "upload_thumbnail" \in trace

C10_Witness ==
    /\ tpc = "done"
    /\ TerminalEvents # {}
    /\ \E i \in DOMAIN events : events[i].by = "extract"
    /\ "upload_thumbnail" \in trace
    /\ dbRecipes = 1

\* C11: the progress percentages passed to the sink within one job, by
\* extract and then by the job runner, lie in 0..100 and never decrease.
C11_ProgressNeverDecreases ==
    /\ \A i \in DOMAIN events : events[i].progress \in 0..100
    /\ \A i, j \in DOMAIN events :
          i < j => events[i].progress <= events[j].progress

(***************************************************************************)
(* Claims about recipe normalisation                                       *)
(***************************************************************************)
\* The recipes that reach a caller: what a normaliser returned without
\* raising and without None.
ReturnedRecipes ==
    {ret[i].recipe : i \in {k \in DOMAIN ret : ~ret[k].raised /\ ~ret[k].none}}

NamedIngredients(recipe) ==
    \A c \in DOMAIN recipe.components :
        \A i \in DOMAIN recipe.components[c].ingredients :
            recipe.components[c].ingredients[i].name \notin {"None", ""}

\* C12: every recipe of a successful result has at least one component, and
\* every ingredient of every component has a name that is neither null nor
\* empty, whatever draft the provider or the page supplied.
C12_ComponentsAndIngredientNames ==
    \A recipe \in ReturnedRecipes :
        /\ Len(recipe.components) >= 1
        /\ NamedIngredients(recipe)

\* What does hold of C12: the component list is never empty.
C12_ComponentsNeverEmpty ==
    \A recipe \in ReturnedRecipes : Len(recipe.components) >= 1

\* C13: after _post_process_recipe and in every successful result, nutrition
\* has both keys perServing and total, for a draft without nutrition, with
\* only one of the two keys, and with null nutrition.
C13_NutritionHasBothKeys ==
    \A recipe \in ReturnedRecipes :
        /\ recipe.nutrition.kind = "dict"
        /\ {"perServing", "total"} \subseteq recipe.nutrition.keys

(***************************************************************************)
(* Claims about the confidence evaluator                                   *)
(***************************************************************************)
Mentions(warning, reason) == \E i \in DOMAIN warning : warning[i] = reason

\* C14: when the raw content has fewer than 50 whitespace-separated words,
\* the confidence evaluator returns low_confidence = true and a warning that
\* names the insufficient content, whatever the other checks add and
\* whatever the quality and the audio flag are.
C14_ShortContentIsLowConfidence ==
    (/\ call.fn = "_check_extraction_confidence"
     /\ ret # <<>>
     /\ call.raw_text.word_count < 50)
        => /\ ret[1].low_confidence
           /\ Mentions(ret[1].confidence_warning, "very little content was found")

\* A short text evaluated with three further reasons to warn.
C14_Witness ==
    /\ call.fn = "_check_extraction_confidence"
    /\ ret # <<>>
    /\ call.raw_text.word_count = 49
    /\ ~call.has_audio_transcript /\ call.extraction_quality = "low"
    /\ call.raw_text.music_indicators = 3
    /\ call.recipe.present /\ call.recipe.total_ingredients = 0
    /\ ret[1].low_confidence

(***************************************************************************)
(* Claims about the URL normaliser                                         *)
(***************************************************************************)
\* C15: normalize_url is idempotent for every URL shape of every platform
\* under a fixed behaviour of the network: normalising a normalised URL
\* returns it unchanged.
C15_NormalizeIdempotent ==
    (call.fn = "normalize_url" /\ Len(ret) = 2) => ret[2] = ret[1]

\* A TikTok short link with parameters was resolved through a redirect and
\* the result was normalised again.
C15_Witness ==
    /\ call.fn = "normalize_url" /\ Len(ret) = 2
    /\ call.url.shape \in TikTokShortShapes /\ call.url.params
    /\ call.head[call.url.id].kind = "redirect"
    /\ call.head[call.url.id].url.params

ShortLinkNormalised ==
    /\ call.fn = "normalize_url" /\ ret # <<>>
    /\ call.url.shape \in TikTokShortShapes

JsonLdComplete ==
    /\ page.fetch_error = "none"
    /\ page.jsonld.present
    /\ LET converted ==
               convert_jsonld_to_recipe(page.jsonld.recipe, page.ingredient_groups)
       IN  /\ ~converted.raised
           /\ Len(converted.recipe.ingredients) >= 1
           /\ Len(converted.recipe.steps) >= 1

NoLlmCall == \A p \in Providers : calls[p] = 0

C18_FastModeSkipsAudio ==
    ein.fast_mode =>
        /\ "download_audio" \notin trace
        /\ "transcribe_audio" \notin trace
        /\ (ex.pc = "done" /\ result.success) =>
              /\ ~result.has_audio_transcript
              /\ result.extraction_method # "whisper"

\* A fast-mode extraction of a YouTube video succeeded through the provider.
C18_Witness ==
    /\ ein.fast_mode
    /\ ein.platform = "youtube"
    /\ ex.pc = "done"
    /\ "llm" \in trace
    /\ result.success

\* extract_recipe was called for a video and both providers failed.
BothProvidersFailed ==
    /\ ex.pc = "done"
    /\ ~ein.photo_url
    /\ "llm" \in trace
    /\ ~lresult.success

\* C19: when both providers fail in text extraction, extract returns
\* success = false with error code LLM_EXTRACTION_FAILED, and neither error
\* nor friendly_error carries the raw error text of a provider.
C19_ProviderErrorsNotSurfaced ==
    BothProvidersFailed =>
        /\ ~result.success
        /\ result.error_code = "LLM_EXTRACTION_FAILED"
        /\ result.error \notin Failures
        /\ result.friendly_error \notin Failures

\* Both providers were called and failed, the fallback last with a raw error.
C19_Witness ==
    /\ BothProvidersFailed
    /\ calls["primary"] > 0 /\ calls["secondary"] > 0
    /\ last_error \in Failures

\* C20: the temporary directory download_audio creates is released on every
\* exit path: after a failure return the directory no longer exists, and
\* after a success followed by cleanup_audio_file neither the file nor the
\* directory exists.
C20_TempDirReleased ==
    /\ ("download_audio" \in trace /\ ~ex.audio_file_path) => ~fs.dir
    /\ (ex.pc = "done" /\ DownloadSucceeded) => (~fs.file /\ ~fs.dir)

\* What does hold of C20: after a success and cleanup_audio_file, file and
\* directory are gone.
C20_ReleasedAfterCleanup ==
    (ex.pc = "done" /\ DownloadSucceeded) => (~fs.file /\ ~fs.dir)

\* C21: the website text path fails whenever the provider's title is a
\* placeholder or the draft has neither an ingredient nor a step; hence every
\* successful 'website-ai' result has a title that is no placeholder and at
\* least one ingredient or one step inside recipe.components.
C21_WebsiteAiHasContent ==
    (wpc = "done" /\ wres.success /\ wres.extraction_method = "website-ai") =>
        /\ wres.recipe.title \notin {"", "Recipe "}
        /\ \/ Len(all_ingredients(wres.recipe.components)) >= 1
           \/ total_steps(wres.recipe.components) >= 1

\* What does hold of C21: the title of a successful 'website-ai' result is
\* no placeholder.
C21_TitleNotPlaceholder ==
    (wpc = "done" /\ wres.success /\ wres.extraction_method = "website-ai") =>
        wres.recipe.title \notin {"", "Recipe "}

(***************************************************************************)
(* Claims about metadata merging and the quality labels                    *)
(***************************************************************************)
\* Step 2 keeps what the embed endpoint returned: a field of the merged
\* metadata, and the thumbnail, differ from the embed value only where the
\* embed value was empty.
EmbedKeptInMerge ==
    /\ ex.oembed.title # "" => ex.metadata.title = ex.oembed.title
    /\ ex.oembed.description # "" => ex.metadata.description = ex.oembed.description
    /\ ex.oembed.thumbnail # "" => ex.thumbnail_url = ex.oembed.thumbnail

\* C22: when extract merges the embed metadata with the yt-dlp metadata,
\* title, description and thumbnail keep the value of the source that
\* populated them first: a non-empty embed value is never replaced by a
\* yt-dlp value, in the transcript path and in the metadata-only fallback.
C22_EmbedValueNeverReplaced ==
    /\ EmbedKeptInMerge
    /\ (ex.oembed.title # "" /\ "title" \in ex.combined_content) =>
          ex.content_title = ex.oembed.title

\* C22 as the code has it: the merge of step 2 and the transcript path keep
\* every non-empty embed value; the metadata-only fallback writes the yt-dlp
\* title into the content whenever yt-dlp has one, and the embed title only
\* when yt-dlp has none; the thumbnail of the embed is never replaced.
C22_EmbedKeptExceptFallbackTitle ==
    /\ EmbedKeptInMerge
    /\ (ex.extraction_method = "whisper" /\ ex.oembed.title # "") =>
          ex.content_title = ex.oembed.title
    /\ ("metadata_only" \in trace /\ ex.ytdlp_metadata # <<>>) =>
          ex.content_title =
              IF ex.ytdlp_metadata[1].title # ""
              THEN ex.ytdlp_metadata[1].title
              ELSE ex.metadata.title

\* The fallback ran with a title from both sources.
C22_Witness ==
    /\ ex.pc = "done"
    /\ "metadata_only" \in trace
    /\ ex.oembed.title = "oembed"
    /\ ex.ytdlp_metadata # <<>>
    /\ ex.ytdlp_metadata[1].title = "ytdlp"
    /\ ex.oembed.thumbnail = "oembed"
    /\ result.success

(***************************************************************************)
(* Further claims about the confidence evaluator                           *)
(***************************************************************************)
Evaluated == call.fn = "_check_extraction_confidence" /\ ret # <<>>

\* The reasons that fire for the evaluated arguments, each trigger taken on
\* its own, in the order of the checks.
FiredReasons ==
    metadata_warnings(call.extraction_quality, call.has_audio_transcript)
        \o content_warnings(call.raw_text)
        \o music_warnings(call.raw_text, call.has_audio_transcript)
        \o recipe_warnings(call.recipe)

\* C23: low_confidence is true exactly when a reason fired, the warning is
\* non-null exactly when low_confidence is true, and the warning holds the
\* first two fired reasons in check order when two or more fired and the
\* single reason when one fired.
C23_WarningIsFirstTwoReasons ==
    Evaluated =>
        /\ ret[1].low_confidence <=> FiredReasons # <<>>
        /\ ret[1].confidence_warning # <<>> <=> ret[1].low_confidence
        /\ Len(FiredReasons) >= 2 =>
              ret[1].confidence_warning = <<FiredReasons[1], FiredReasons[2]>>
        /\ Len(FiredReasons) = 1 =>
              ret[1].confidence_warning = <<FiredReasons[1]>>

\* Four reasons fired.
C23_Witness ==
    /\ Evaluated
    /\ Len(FiredReasons) >= 4
    /\ ret[1].low_confidence

\* None of the six listed triggers holds.
NoListedTrigger ==
    /\ call.has_audio_transcript
    /\ call.raw_text.word_count >= 50
    /\ call.raw_text.music_indicators < 3
    /\ call.recipe.present
    /\ call.recipe.total_ingredients >= 3
    /\ 2 * call.recipe.vague_ingredients < call.recipe.total_ingredients
    /\ call.recipe.total_steps >= 1
    /\ call.recipe.title \in {"Pancakes", "Recipe "}

\* The spoken part is longer than 100 characters, has fewer than two recipe
\* keywords, and the metadata part is not rich.
UnclearSpokenContent ==
    /\ call.raw_text.recipe_word_count_spoken < 2
    /\ call.raw_text.spoken_content_long
    /\ ~call.raw_text.metadata_has_rich_recipe_info

\* C24: low confidence is flagged only when one of the six listed triggers
\* holds: a draft with an audio transcript, 50 words or more, fewer than 3
\* music glyphs, 3 or more ingredients of which fewer than half are vague, a
\* step, and a title that is not generic and has 3 characters or more is
\* never flagged, whatever the spoken content says.
C24_OnlyListedTriggers ==
    (Evaluated /\ NoListedTrigger) => ~ret[1].low_confidence

\* C24 as the code has it: such a draft is flagged exactly when the spoken
\* content is long, has fewer than two recipe keywords and the metadata is
\* not rich, and then with that single reason.
C24_ListedTriggersOrUnclearSpeech ==
    (Evaluated /\ NoListedTrigger) =>
        /\ ret[1].low_confidence <=> UnclearSpokenContent
        /\ ret[1].low_confidence =>
              ret[1].confidence_warning =
                  <<"the audio didn't contain clear recipe instructions">>

\* A draft without any listed trigger was flagged for its spoken content.
C24_Witness ==
    /\ Evaluated
    /\ NoListedTrigger
    /\ UnclearSpokenContent
    /\ ret[1].low_confidence

(***************************************************************************)
(* Further claims about the job runners                                    *)
(***************************************************************************)
\* C25: "cancelled" is terminal: once cancel_job has committed status
\* "cancelled", no later step of run_extraction_job changes the job's status
\* to "completed" or "failed", whatever the interleaving.
C25_CancelledIsTerminal ==
    [][dbJob.status = "cancelled" => dbJob'.status \notin {"completed", "failed"}]_vars

\* C25 for a successful FullExtractionResult whose cancellation was committed
\* before the re-read that follows the recipe commit: the three reads of the
\* job row keep the status for these.
C25_VideoSuccessCancelSeenByReread ==
    [][(/\ dbJob.status = "cancelled"
        /\ jres.type = "FullExtractionResult" /\ jres.success
        /\ cancelAt \in RereadNotPerformed)
          => dbJob'.status = "cancelled"]_vars


\* C26: every job that is never cancelled and whose extraction returns a
\* successful result ends with status "completed", progress 100 and the
\* recipe_id of a persisted recipe, for website results as well as for video
\* results.
C26_SuccessEndsCompleted ==
    (tpc = "done" /\ cancelAt = "never" /\ jres.success) =>
        /\ dbJob.status = "completed"
        /\ dbJob.progress = 100
        /\ dbJob.recipe_id = "recipe"
        /\ dbRecipes = 1

\* C26 for the results of RecipeExtractor.extract alone.
C26_VideoSuccessEndsCompleted ==
    (/\ tpc = "done" /\ cancelAt = "never" /\ jres.success
     /\ jres.type = "FullExtractionResult") =>
        /\ dbJob.status = "completed"
        /\ dbJob.progress = 100
        /\ dbJob.recipe_id = "recipe"
        /\ dbRecipes = 1


Executing == {id \in DOMAIN tasks : tasks[id] = "running"}

\* C27: for any URL at most one background extraction task started by
\* start_extraction_job is executing at any time, whatever the interleaving
\* of requests, cancel_job included.
C27_OneTaskPerUrl == Cardinality(Executing) <= 1

\* The unique url column keeps the table at one job row for the URL.
C27_OneJobRowPerUrl == Cardinality(jobs) <= 1


\* C28: when run_re_extraction_job ends with the job "failed", after an
\* extraction failure or an exception at a step after the extraction, the
\* recipe's extracted data and thumbnail are as before the job and no new
\* RecipeVersion row is persisted.
C28_FailedLeavesRecipeUntouched ==
    (tpc = "done" /\ dbJob.status = "failed") =>
        /\ dbRecipe.extracted = "old"
        /\ dbRecipe.thumbnail_url = "old"
        /\ dbVersions = 0

\* C28 for a failed extraction result alone.
C28_ExtractionFailureLeavesRecipeUntouched ==
    (tpc = "done" /\ dbJob.status = "failed" /\ ~jres.success) =>
        /\ dbRecipe.extracted = "old"
        /\ dbRecipe.thumbnail_url = "old"
        /\ dbVersions = 0


(***************************************************************************)
(* Further claims about the orchestrator                                   *)
(***************************************************************************)
\* A successful result of the video path of extract: the one returned after
\* llm_service.extract_recipe (the slideshow path calls the vision entry)
VideoSuccess ==
    /\ ex.pc = "done"
    /\ result.kind = "returned" /\ result.success
    /\ "llm" \in trace

\* C29: in every successful result of the video path, has_audio_transcript
\* is true exactly when the method is "whisper", and exactly then the quality
\* is "high"; method "basic" has quality "medium" when a description went
\* into the content and "low" otherwise; method "oembed" has quality "low".
C29_MethodQualityTranscript ==
    VideoSuccess =>
        /\ result.extraction_method \in {"whisper", "basic", "oembed"}
        /\ result.has_audio_transcript <=> result.extraction_method = "whisper"
        /\ result.extraction_method = "whisper" <=> result.extraction_quality = "high"
        /\ result.extraction_method = "basic" =>
              result.extraction_quality =
                  IF "description" \in ex.combined_content THEN "medium" ELSE "low"
        /\ result.extraction_method = "oembed" => result.extraction_quality = "low"

\* A metadata-only result built from a title alone, after a failed
\* transcription.
C29_Witness ==
    /\ VideoSuccess
    /\ "transcribe_audio" \in trace
    /\ result.extraction_method = "basic"
    /\ result.extraction_quality = "low"
    /\ "title" \in ex.combined_content


\* A successful result of the slideshow path
SlideshowSuccess ==
    /\ ex.pc = "done"
    /\ result.kind = "returned" /\ result.success
    /\ result.extraction_method = "tiktok_photo_vision"

\* C30: every successful slideshow result has low_confidence true and a
\* warning that includes the very-little-content reason, whatever the vision
\* entry extracted.
C30_SlideshowIsLowConfidence ==
    SlideshowSuccess =>
        /\ ex.low_confidence
        /\ \E i \in DOMAIN ex.confidence_warning :
              ex.confidence_warning[i] = "very little content was found"

\* A slideshow result with a full draft, flagged for its content alone.
C30_Witness ==
    /\ SlideshowSuccess
    /\ "vision" \in trace
    /\ ex.confidence_warning = <<"very little content was found">>

====
